---- MODULE Spec2Model ----
(***************************************************************************)
(* Risk-scoring engine and simulation tracking state machine of the        *)
(* PhishAware backend (Backend/apps/training, Backend/apps/simulations,    *)
(* Backend/apps/campaigns).                                                *)
(***************************************************************************)
EXTENDS Integers, Sequences, FiniteSets, TLC

(***************************************************************************)
(* Binary64 arithmetic.  Python evaluates correct / total, (0.5 - a) * 40  *)
(* and rate * 30 in IEEE-754 doubles (round to nearest, ties to even) and  *)
(* int() truncates toward zero.  A non-negative magnitude is a fixed-point *)
(* number of NLIMB limbs of LIMB bits, least significant first; the lowest *)
(* FLIMB limbs are the fraction.  Bit index b (from 0) has weight          *)
(* 2^(b - FLIMB*LIMB).                                                     *)
(***************************************************************************)
LIMB == 16
FLIMB == 4
NLIMB == 5
MANT == 53

Pow2(n) == IF n = 0 THEN 1 ELSE 2 ^ n

BASE == Pow2(LIMB)

\* a limb vector as a sequence of NLIMB limbs
LimbVec(f) == f \o <<>>

ZeroLimbs == LimbVec([i \in 1..NLIMB |-> 0])

\* 0.5
HalfLimbs == LimbVec([i \in 1..NLIMB |-> IF i = FLIMB THEN BASE \div 2 ELSE 0])

\* 2^(b - FLIMB*LIMB) for a bit index b
UnitAt(b) == LimbVec([i \in 1..NLIMB |-> IF i = (b \div LIMB) + 1 THEN Pow2(b % LIMB) ELSE 0])

IsZeroLimbs(a) == \A i \in 1..NLIMB : a[i] = 0

\* a >= b
GeLimbs(a, b) ==
  LET d == {i \in 1..NLIMB : a[i] # b[i]}
  IN  d = {} \/ \E i \in d : (\A j \in d : j <= i) /\ a[i] > b[i]

\* a + b (the magnitudes used stay below 2^(NLIMB*LIMB))
AddLimbs(a, b) ==
  LET carry[i \in 0..NLIMB] == IF i = 0 THEN 0 ELSE (a[i] + b[i] + carry[i-1]) \div BASE
  IN  LimbVec([i \in 1..NLIMB |-> (a[i] + b[i] + carry[i-1]) % BASE])

\* a - b, for a >= b
SubLimbs(a, b) ==
  LET borrow[i \in 0..NLIMB] == IF i = 0 THEN 0 ELSE IF a[i] - b[i] - borrow[i-1] < 0 THEN 1 ELSE 0
  IN  LimbVec([i \in 1..NLIMB |-> (a[i] - b[i] - borrow[i-1] + BASE) % BASE])

\* the exact product a * n for a small integer n >= 0
MulExact(a, n) ==
  LET carry[i \in 0..NLIMB] == IF i = 0 THEN 0 ELSE (a[i] * n + carry[i-1]) \div BASE
  IN  LimbVec([i \in 1..NLIMB |-> (a[i] * n + carry[i-1]) % BASE])

\* number of significant bits of a limb value
BitLen(x) == IF x = 0 THEN 0 ELSE CHOOSE k \in 1..LIMB : Pow2(k - 1) <= x /\ x < Pow2(k)

BitAt(a, b) == (a[(b \div LIMB) + 1] \div Pow2(b % LIMB)) % 2

\* some bit below bit index b is set
AnyBelow(a, b) ==
  \/ \E i \in 1..(b \div LIMB) : a[i] # 0
  \/ a[(b \div LIMB) + 1] % Pow2(b % LIMB) # 0

\* a with the bits below bit index b cleared
ClearBelow(a, b) ==
  LimbVec([i \in 1..NLIMB |->
     IF i < (b \div LIMB) + 1 THEN 0
     ELSE IF i = (b \div LIMB) + 1 THEN (a[i] \div Pow2(b % LIMB)) * Pow2(b % LIMB)
     ELSE a[i]])

\* index of the highest non-zero limb
TopLimb(a) == CHOOSE i \in 1..NLIMB : a[i] # 0 /\ \A j \in (i+1)..NLIMB : a[j] = 0

\* bit index of the most significant bit of the limb with index top
TopBit(a, top) == (top - 1) * LIMB + BitLen(a[top]) - 1

\* round a at bit index keep: the bits below keep are dropped, nearest, ties to even
RoundAt(a, sticky, keep) ==
  IF keep <= 0 THEN a
  ELSE IF /\ BitAt(a, keep - 1) = 1
          /\ \/ sticky
             \/ keep >= 2 /\ AnyBelow(a, keep - 1)
             \/ BitAt(a, keep) = 1
       THEN AddLimbs(ClearBelow(a, keep), UnitAt(keep))
       ELSE ClearBelow(a, keep)

\* round an exact magnitude (limbs, plus a sticky flag for a discarded non-zero
\* tail below the lowest limb) to 53 significant bits, nearest, ties to even
Round53(a, sticky) ==
  IF IsZeroLimbs(a) THEN a
  ELSE RoundAt(a, sticky, TopBit(a, TopLimb(a)) - (MANT - 1))

\* float(c) / float(t) for integers c >= 0, t > 0: long division, then rounding
DivLimbs(c, t) ==
  LET rem[k \in 0..FLIMB] == IF k = 0 THEN c % t ELSE (rem[k-1] * BASE) % t
      exact == LimbVec([i \in 1..NLIMB |->
                 IF i > FLIMB + 1 THEN 0
                 ELSE IF i = FLIMB + 1 THEN c \div t
                 ELSE (rem[FLIMB - i] * BASE) \div t])
  IN  Round53(exact, rem[FLIMB] # 0)

\* a * float(n), rounded
MulLimbs(a, n) == Round53(MulExact(a, n), FALSE)

\* int(): the integer part of the magnitude (truncation toward zero)
IntPart(a) ==
  LET acc[i \in FLIMB..NLIMB] ==
        IF i = FLIMB THEN 0 ELSE acc[i-1] + a[i] * Pow2((i - 1 - FLIMB) * LIMB)
  IN  acc[NLIMB]

Min2(a, b) == IF a < b THEN a ELSE b
Max2(a, b) == IF a > b THEN a ELSE b

(***************************************************************************)
(* RiskScore.recalculate_score and RiskScore.calculate_risk_level          *)
(***************************************************************************)

\* a variant of quiz_adjustment_of that rounds toward minus infinity
quiz_adjustment_floored(accuracy) ==
  IF GeLimbs(HalfLimbs, accuracy)
  THEN IntPart(MulLimbs(Round53(SubLimbs(HalfLimbs, accuracy), FALSE), 40))
  ELSE 0 - IntPart(AddLimbs(MulLimbs(Round53(SubLimbs(accuracy, HalfLimbs), FALSE), 40),
                            SubLimbs(UnitAt(FLIMB * LIMB), UnitAt(0))))

\* int((0.5 - accuracy) * 40)
quiz_adjustment_of(accuracy) ==
  IF GeLimbs(HalfLimbs, accuracy)
  THEN IntPart(MulLimbs(Round53(SubLimbs(HalfLimbs, accuracy), FALSE), 40))
  ELSE 0 - IntPart(MulLimbs(Round53(SubLimbs(accuracy, HalfLimbs), FALSE), 40))

\* int((0.5 - correct / total) * 40); 0 when there are no questions
quiz_adjustment(correct, total) ==
  IF total > 0 THEN quiz_adjustment_of(DivLimbs(correct, total)) ELSE 0

\* int((clicked / received) * 30); 0 when nothing was received
simulation_adjustment(clicked, received) ==
  IF received > 0
  THEN IntPart(MulLimbs(DivLimbs(clicked, received), 30))
  ELSE 0

phishing_penalty(missed) == Min2(missed * 5, 25)

credential_penalty(creds) == Min2(creds * 15, 20)

report_bonus(reported) == Min2(reported * 5, 15)

training_bonus(passed) == Min2(passed * 10, 25)

\* a variant of calculate_risk_level whose HIGH band ends below 80
calculate_risk_level_strict(score) ==
  IF score <= 30 THEN "LOW"
  ELSE IF score <= 60 THEN "MEDIUM"
  ELSE IF score < 80 THEN "HIGH"
  ELSE "CRITICAL"

calculate_risk_level(score) ==
  IF score <= 30 THEN "LOW"
  ELSE IF score <= 60 THEN "MEDIUM"
  ELSE IF score <= 80 THEN "HIGH"
  ELSE "CRITICAL"

(***************************************************************************)
(* Bounds of the model and the fixed configuration it runs on.             *)
(***************************************************************************)
MaxTime == 4            \* the horizon of the full system
MaxEvents == 4          \* tracking events logged per behaviour
MaxTrainings == 4       \* RemediationTraining rows per behaviour
MaxQuestions == 3       \* questions of one awareness quiz
MaxCount == 5           \* counter range of the inputs drawn for recalculate_score

Employees == {"e1", "e2"}
Campaigns == {"c1", "c2"}
Modules == {"m1", "m2"}
Quizzes == {"q1", "q2"}

\* SimulationCampaign.target_employees
Targets(c) == IF c = "c1" THEN {"e1"} ELSE {"e1", "e2"}

\* track_email_opens / track_link_clicks / track_credentials of each campaign
\* (track_credentials defaults to False; both campaigns have it switched on)
CampaignConfig(c) ==
  IF c = "c1"
  THEN [track_email_opens |-> TRUE, track_link_clicks |-> TRUE, track_credentials |-> TRUE,
        attack_vector |-> "CREDENTIAL_HARVESTING", has_send_date |-> TRUE]
  ELSE [track_email_opens |-> TRUE, track_link_clicks |-> TRUE, track_credentials |-> TRUE,
        attack_vector |-> "LINK_MANIPULATION", has_send_date |-> FALSE]

\* the company of the employees
EmployeeCompany == "co1"

\* the TrainingModule rows: m1 and m2 are global (company is null), m3 belongs to
\* another company
ModuleConfig(m) ==
  IF m = "m1"
  THEN [is_active |-> TRUE, is_mandatory |-> TRUE, category |-> "CREDENTIAL_PROTECTION",
        company |-> "NONE",
        passing_score |-> 80, score_reduction_on_pass |-> 15, questions |-> 5]
  ELSE IF m = "m2"
  THEN [is_active |-> TRUE, is_mandatory |-> FALSE, category |-> "LINK_SAFETY",
        company |-> "NONE",
        passing_score |-> 80, score_reduction_on_pass |-> 15, questions |-> 5]
  ELSE [is_active |-> TRUE, is_mandatory |-> TRUE, category |-> "EMAIL_SECURITY",
        company |-> "co2",
        passing_score |-> 80, score_reduction_on_pass |-> 15, questions |-> 5]

QuizEmployee(q) == IF q = "q1" THEN "e1" ELSE "e2"

\* scores an administrator sends in a manual adjustment (validate_score accepts 0..100)
AdjustScores == {0, 71, 100}

RelevantEvents == {"EMAIL_OPENED", "LINK_CLICKED", "CREDENTIALS_ENTERED", "EMAIL_REPORTED"}
OpenStatuses == {"ASSIGNED", "IN_PROGRESS"}

VARIABLES
  now,        \* the clock read by timezone.now() and auto_now_add
  horizon,    \* the time at which the run stops taking requests
  campaigns,  \* SimulationCampaign rows
  sims,       \* EmailSimulation rows, keyed by <<campaign, employee>>
  events,     \* TrackingEvent rows in insertion order (id = index)
  rs,         \* RiskScore rows, keyed by employee
  history,    \* RiskScoreHistory rows in insertion order
  trainings,  \* RemediationTraining rows in insertion order (id = index)
  modstats,   \* TrainingModule statistics
  quizzes,    \* Quiz status
  results,    \* QuizResult rows, keyed by quiz
  received,   \* per simulation: how often it was added to total_simulations_received
  submitting, \* submit requests that read their quiz and have not yet written:
              \* pairs <<request, quiz>>
  trigger,    \* the call stack of a request whose RiskScore saves are followed call
              \* by call, the _from_signal attribute of its RiskScore instance, and
              \* whether an exception is propagating
  running,    \* per handler: the tracking request it is executing statement by
              \* statement, with the RiskScore instance it holds in memory
  last        \* the operation of the last step and what it was applied to

vars == <<now, horizon, campaigns, sims, events, rs, history, trainings, modstats, quizzes,
          results, received, submitting, trigger, running, last>>

\* the rows a request works on, as one value
DB == [campaigns |-> campaigns, sims |-> sims, events |-> events, rs |-> rs,
       history |-> history, trainings |-> trainings, modstats |-> modstats,
       quizzes |-> quizzes, results |-> results, received |-> received]

NewCampaign ==
  [status |-> "DRAFT", sent_at |-> 0, completed_at |-> 0, total_sent |-> 0,
   total_opened |-> 0, total_clicked |-> 0, total_reported |-> 0,
   total_credentials_entered |-> 0]

NewSimulation ==
  [status |-> "PENDING", sent_at |-> 0,
   was_opened |-> FALSE, first_opened_at |-> 0,
   was_clicked |-> FALSE, clicked_at |-> 0,
   was_reported |-> FALSE, reported_at |-> 0,
   credentials_entered |-> FALSE, credentials_entered_at |-> 0]

NewRiskScore ==
  [score |-> 50, risk_level |-> "MEDIUM", requires_remediation |-> FALSE,
   total_quizzes_taken |-> 0, total_quiz_questions |-> 0, correct_quiz_answers |-> 0,
   phishing_emails_missed |-> 0,
   total_simulations_received |-> 0, simulations_opened |-> 0, simulations_clicked |-> 0,
   simulations_reported |-> 0, credentials_entered |-> 0,
   trainings_assigned |-> 0, trainings_completed |-> 0, trainings_passed |-> 0,
   last_quiz_date |-> 0, last_simulation_date |-> 0, last_training_date |-> 0]

\* the HTTP response of a public pixel or link request: body, content type, the
\* headers set on it and the redirect target
NoResponse == [body |-> "", content_type |-> "", headers |-> {}, location |-> ""]

\* HttpResponse(TRACKING_PIXEL, content_type='image/png') with the headers set on it
PixelResponse(headers) ==
  [body |-> "TRACKING_PIXEL", content_type |-> "image/png", headers |-> headers,
   location |-> ""]

\* HttpResponseRedirect(location)
Redirect(location) == [NoResponse EXCEPT !.location = location]

\* tracking requests that can be in flight at the same time
Handlers == {"h1", "h2"}

\* a handler that executes no request.  Of a request in flight it holds: the
\* statement it is at, the simulation, the event type and the id of the event it
\* inserted, the campaign object the view loaded, the RiskScore instance, the
\* score and level read before the change, the outcome of the two checks, and
\* the position of the module loop of the remediation pass
HandlerIdle ==
  [pc |-> "idle", s |-> <<"", "">>, event_type |-> "", id |-> 0, camp |-> NewCampaign,
   inst |-> NewRiskScore, old_score |-> 0, old_level |-> "",
   counted |-> FALSE, has_event |-> FALSE, k |-> 0]

\* no request is being followed call by call
TriggerIdle == [stack |-> <<>>, flag |-> FALSE, raised |-> FALSE, expect |-> 0, before |-> 0]

\* the operation that led to the current state: its name, the campaign, employee
\* and row it addressed, whether it created a TrackingEvent, whether an event of
\* that type already existed for the simulation, whether the campaign was
\* in a trackable status when the request arrived, and the response of a pixel or
\* link request, and the quiz of a submit request
NoOp == [op |-> "init", c |-> "", e |-> "", i |-> 0,
         created |-> FALSE, dup |-> FALSE, trackable |-> FALSE, resp |-> NoResponse,
         q |-> ""]

InitRows ==
  /\ now = 1
  /\ campaigns = [c \in Campaigns |-> NewCampaign]
  /\ sims = <<>>
  /\ events = <<>>
  /\ rs = <<>>
  /\ history = <<>>
  /\ trainings = <<>>
  /\ modstats = [m \in Modules |-> [times_assigned |-> 0, times_completed |-> 0, times_passed |-> 0]]
  /\ quizzes = [q \in Quizzes |-> "NOT_STARTED"]
  /\ results = <<>>
  /\ received = <<>>
  /\ submitting = {}
  /\ trigger = TriggerIdle
  /\ running = [h \in Handlers |-> HandlerIdle]
  /\ last = NoOp

Init == InitRows /\ horizon = MaxTime

(***************************************************************************)
(* RiskScore: save, the post_save receiver, remediation assignment         *)
(***************************************************************************)
\* the TrainingModule rows in the order of Meta.ordering (category first)
ModuleOrder == <<"m1", "m3", "m2">>

\* an integer as a limb vector
IntLimbs(n) == LimbVec([i \in 1..NLIMB |-> IF i = FLIMB + 1 THEN n ELSE 0])

\* the float (correct / total) * 100 if total > 0 else 0
quiz_score(correct, total) ==
  IF total > 0 THEN MulLimbs(DivLimbs(correct, total), 100) ELSE ZeroLimbs

\* score >= threshold for a float score and an integer threshold
AtLeast(score, threshold) == GeLimbs(score, IntLimbs(threshold))

\* base 50 plus the adjustments, before the clamp
raw_score(row) ==
  50 + quiz_adjustment(row.correct_quiz_answers, row.total_quiz_questions)
     + phishing_penalty(row.phishing_emails_missed)
     + simulation_adjustment(row.simulations_clicked, row.total_simulations_received)
     + credential_penalty(row.credentials_entered)
     - report_bonus(row.simulations_reported)
     - training_bonus(row.trainings_passed)

\* the row with score, risk_level and requires_remediation set from a new score
rescored(row, score) ==
  [row EXCEPT !.score = score,
              !.risk_level = calculate_risk_level(score),
              !.requires_remediation = score > 70]

\* a variant of recalculate_score that forgets the clamp
recalculate_score_unclamped(row) == rescored(row, raw_score(row))

recalculate_score(row) == rescored(row, Max2(0, Min2(100, raw_score(row))))

get_or_create_risk_score(db, e) ==
  IF e \in DOMAIN db.rs THEN db
  ELSE [db EXCEPT !.rs = (e :> NewRiskScore) @@ db.rs]

\* a variant of HasOpenAssignment that never finds an open assignment
HasOpenAssignment_never(db, e, m) == FALSE

HasOpenAssignment(db, e, m) ==
  \E i \in 1..Len(db.trainings) :
     /\ db.trainings[i].employee = e
     /\ db.trainings[i].training_module = m
     /\ db.trainings[i].status \in OpenStatuses

NewTraining(e, m, reason, source_type, source_id, t) ==
  [employee |-> e, training_module |-> m, status |-> "ASSIGNED",
   assignment_reason |-> reason, assigned_at |-> t, started_at |-> 0, completed_at |-> 0,
   quiz_attempts |-> 0, quiz_score_passed |-> FALSE, correct_answers |-> 0,
   total_questions |-> 0, content_viewed |-> FALSE,
   risk_score_before |-> -1, risk_score_after |-> -1,
   source_type |-> source_type, source_id |-> source_id]

BumpModule(db, m, field) ==
  [db EXCEPT !.modstats[m][field] = @ + 1]

\* a variant of create_risk_history that records the base score 50 as previous_score
create_risk_history_from_base(db, e, event_type, old_score, new_score, old_level, new_level, source_type, source_id, t) ==
  [db EXCEPT !.history = Append(@,
     [employee |-> e, event_type |-> event_type,
      previous_score |-> 50, new_score |-> new_score,
      score_change |-> new_score - 50,
      previous_risk_level |-> old_level, new_risk_level |-> new_level,
      source_type |-> source_type, source_id |-> source_id, created_at |-> t])]

create_risk_history(db, e, event_type, old_score, new_score, old_level, new_level, source_type, source_id, t) ==
  [db EXCEPT !.history = Append(@,
     [employee |-> e, event_type |-> event_type,
      previous_score |-> old_score, new_score |-> new_score,
      score_change |-> new_score - old_score,
      previous_risk_level |-> old_level, new_risk_level |-> new_level,
      source_type |-> source_type, source_id |-> source_id, created_at |-> t])]

RECURSIVE auto_assign_loop(_, _, _, _, _, _)
\* a variant of check_remediation_on_score_change that never assigns
check_remediation_on_score_change_off(db, e, score, requires, t, from_signal) == db

\* check_remediation_on_score_change: the post_save receiver of RiskScore.
\* score and requires are the fields of the instance that was saved;
\* from_signal is its _from_signal attribute.
check_remediation_on_score_change(db, e, score, requires, t, from_signal) ==
  IF from_signal THEN db
  ELSE IF score > 70 /\ requires
       THEN auto_assign_loop(db, e, score, t, TRUE, 1)
       ELSE db

\* the loop of auto_assign_remediation, from the k-th module on
auto_assign_loop(db, e, score, t, from_signal, k) ==
  IF k > Len(ModuleOrder) THEN db
  ELSE
    LET m == ModuleOrder[k]
        cfg == ModuleConfig(m)
    IN  IF /\ cfg.is_active /\ cfg.is_mandatory
           /\ cfg.company \in {"NONE", EmployeeCompany}
           /\ ~HasOpenAssignment(db, e, m)
        THEN LET d1 == [db EXCEPT !.trainings = Append(@,
                          NewTraining(e, m, "AUTO_HIGH_RISK", "RiskScore", e, t))]
                 d2 == BumpModule(d1, m, "times_assigned")
                 \* risk_score.save(update_fields=['trainings_assigned']);
                 \* RiskScore.save recomputes requires_remediation on the instance
                 d3 == [d2 EXCEPT !.rs[e].trainings_assigned = @ + 1]
                 d4 == check_remediation_on_score_change(d3, e, score, score > 70,
                                                         t, from_signal)
             IN  auto_assign_loop(d4, e, score, t, from_signal, k + 1)
        ELSE auto_assign_loop(db, e, score, t, from_signal, k + 1)

auto_assign_remediation(db, e, score, t) ==
  IF score <= 70 THEN db
  ELSE auto_assign_loop(db, e, score, t, FALSE, 1)

\* a variant of RiskScoreSave that writes the row without deriving risk_level and
\* requires_remediation from the score
RiskScoreSave_as_given(db, e, row, t) ==
  check_remediation_on_score_change([db EXCEPT !.rs[e] = row], e,
                                    row.score, row.requires_remediation, t, FALSE)

\* RiskScore.save() of the whole row, then the post_save receiver
RiskScoreSave(db, e, row, t) ==
  LET saved == [row EXCEPT !.risk_level = calculate_risk_level(row.score),
                           !.requires_remediation = row.score > 70]
  IN  check_remediation_on_score_change([db EXCEPT !.rs[e] = saved], e,
                                        saved.score, saved.requires_remediation, t, FALSE)

\* RiskScore.save(update_fields=...) of counters only, then the post_save receiver
RiskScoreSaveFields(db, e, row, t) ==
  check_remediation_on_score_change([db EXCEPT !.rs[e] = row], e,
                                    row.score, row.score > 70, t, FALSE)

\* a variant of recalculate_and_save that saves the row with the score it had
recalculate_and_save_kept(db, e, t) == RiskScoreSave(db, e, db.rs[e], t)

\* risk_score.refresh_from_db(); risk_score.recalculate_score(); risk_score.save()
recalculate_and_save(db, e, t) ==
  RiskScoreSave(db, e, recalculate_score(db.rs[e]), t)

\* auto_assign_remediation(risk_score) on the instance just saved
assign_after(db, e, t) ==
  auto_assign_remediation(db, e, db.rs[e].score, t)

\* the history row of update_risk_score_from_quiz
quiz_history(db, old_score, old_level, q, res, t) ==
  create_risk_history(db, res.employee,
    IF AtLeast(res.score, 70)
    THEN "QUIZ_COMPLETED" ELSE "QUIZ_FAILED",
    old_score, db.rs[res.employee].score, old_level, db.rs[res.employee].risk_level,
    "QuizResult", q, t)

\* the history row and the remediation step that end update_risk_score_from_quiz
quiz_finish(db, old_score, old_level, q, res, t) ==
  assign_after(quiz_history(db, old_score, old_level, q, res, t), res.employee, t)

\* update_risk_score_from_quiz up to its history row, the RiskScore row existing (d0)
quiz_front(d0, q, res, t) ==
  quiz_history(
    recalculate_and_save(
      RiskScoreSave(d0, res.employee,
        [d0.rs[res.employee] EXCEPT
           !.total_quizzes_taken = @ + 1,
           !.total_quiz_questions = @ + res.total_questions,
           !.correct_quiz_answers = @ + res.correct_answers,
           !.phishing_emails_missed = @ + res.phishing_emails_missed,
           !.last_quiz_date = t], t),
      res.employee, t),
    d0.rs[res.employee].score, d0.rs[res.employee].risk_level, q, res, t)

\* update_risk_score_from_quiz once the RiskScore row exists (d0)
quiz_apply(d0, q, res, t) ==
  quiz_finish(
    recalculate_and_save(
      RiskScoreSave(d0, res.employee,
        [d0.rs[res.employee] EXCEPT
           !.total_quizzes_taken = @ + 1,
           !.total_quiz_questions = @ + res.total_questions,
           !.correct_quiz_answers = @ + res.correct_answers,
           !.phishing_emails_missed = @ + res.phishing_emails_missed,
           !.last_quiz_date = t], t),
      res.employee, t),
    d0.rs[res.employee].score, d0.rs[res.employee].risk_level, q, res, t)

\* update_risk_score_from_quiz: the post_save receiver of QuizResult
update_risk_score_from_quiz(db, q, res, t) ==
  quiz_apply(get_or_create_risk_score(db, res.employee), q, res, t)

(***************************************************************************)
(* TrackingEvent: creation, the RiskScore receiver, the statistics roll-up *)
(***************************************************************************)
SimCampaign(s) == s[1]
SimEmployee(s) == s[2]

vector_to_category(attack_vector) ==
  CASE attack_vector = "LINK_MANIPULATION" -> "LINK_SAFETY"
    [] attack_vector = "CREDENTIAL_HARVESTING" -> "CREDENTIAL_PROTECTION"
    [] attack_vector = "MALWARE_ATTACHMENT" -> "EMAIL_SECURITY"
    [] attack_vector = "SOCIAL_ENGINEERING" -> "SOCIAL_ENGINEERING"
    [] attack_vector = "BUSINESS_EMAIL_COMPROMISE" -> "EMAIL_SECURITY"
    [] attack_vector = "SPEAR_PHISHING" -> "PHISHING_BASICS"
    [] OTHER -> "NONE"

\* TrainingModule.objects.filter(is_active=True, category=category).first()
relevant_module(category) ==
  LET idx(company) == {k \in 1..Len(ModuleOrder) :
                         /\ ModuleConfig(ModuleOrder[k]).is_active
                         /\ ModuleConfig(ModuleOrder[k]).category = category
                         /\ ModuleConfig(ModuleOrder[k]).company = company}
      first(S) == ModuleOrder[CHOOSE k \in S : \A j \in S : k <= j]
  IN  IF idx("NONE") # {} THEN first(idx("NONE"))
      ELSE IF idx(EmployeeCompany) # {} THEN first(idx(EmployeeCompany))
      ELSE "NONE"

history_event_map(event_type) ==
  CASE event_type = "EMAIL_OPENED" -> "SIMULATION_OPENED"
    [] event_type = "LINK_CLICKED" -> "SIMULATION_CLICKED"
    [] event_type = "CREDENTIALS_ENTERED" -> "CREDENTIALS_ENTERED"
    [] event_type = "EMAIL_REPORTED" -> "PHISHING_REPORTED"
    [] OTHER -> event_type

\* the RiskScore counter an event type increments
CounterOf(event_type) ==
  CASE event_type = "EMAIL_OPENED" -> "simulations_opened"
    [] event_type = "LINK_CLICKED" -> "simulations_clicked"
    [] event_type = "CREDENTIALS_ENTERED" -> "credentials_entered"
    [] event_type = "EMAIL_REPORTED" -> "simulations_reported"

\* events of simulation s other than event id (id = 0 excludes nothing)
OtherEvents(db, s, id, types) ==
  {j \in 1..Len(db.events) :
      j # id /\ db.events[j].email_simulation = s /\ db.events[j].event_type \in types}

has_prior_relevant_events(db, id) ==
  OtherEvents(db, db.events[id].email_simulation, id, RelevantEvents) # {}

\* a variant of was_bulk_marked_sent that takes every simulation for bulk-marked
was_bulk_marked_sent_always(db, id) == TRUE

\* a variant of was_bulk_marked_sent that never recognises a bulk-marked simulation
was_bulk_marked_sent_never(db, id) == FALSE

was_bulk_marked_sent(db, id) ==
  /\ db.sims[db.events[id].email_simulation].status = "SENT"
  /\ db.sims[db.events[id].email_simulation].sent_at # 0
  /\ OtherEvents(db, db.events[id].email_simulation, 0, {"EMAIL_SENT"}) = {}

sim_already_counted(db, id) ==
  has_prior_relevant_events(db, id) \/ was_bulk_marked_sent(db, id)

\* a variant of already_has_event that never finds an earlier event
already_has_event_never(db, id) == FALSE

already_has_event(db, id) ==
  OtherEvents(db, db.events[id].email_simulation, id, {db.events[id].event_type}) # {}

\* the counters of the row after the increments of the receiver
simulation_counters(db, id, t) ==
  [db.rs[SimEmployee(db.events[id].email_simulation)] EXCEPT
     !.total_simulations_received =
        IF sim_already_counted(db, id) THEN @ ELSE @ + 1,
     ![CounterOf(db.events[id].event_type)] =
        IF already_has_event(db, id) THEN @ ELSE @ + 1,
     !.last_simulation_date = t]

\* bookkeeping: how often simulation s was added to total_simulations_received
count_received(db, id) ==
  IF sim_already_counted(db, id) THEN db
  ELSE [db EXCEPT !.received[db.events[id].email_simulation] = @ + 1]

\* the attack-vector specific assignment at the end of the receiver
targeted_assignment(db, id, t) ==
  LET s == db.events[id].email_simulation
      e == SimEmployee(s)
      category == vector_to_category(CampaignConfig(SimCampaign(s)).attack_vector)
      m == relevant_module(category)
  IN  IF category # "NONE" /\ m # "NONE" /\ ~HasOpenAssignment(db, e, m)
      THEN BumpModule([db EXCEPT !.trainings = Append(@,
               NewTraining(e, m, "AUTO_SIMULATION_FAIL", "TrackingEvent", id, t))],
             m, "times_assigned")
      ELSE db

\* the remediation steps that end update_risk_score_from_simulation
simulation_assign(db, id, t) ==
  IF db.events[id].event_type \in {"LINK_CLICKED", "CREDENTIALS_ENTERED"}
  THEN targeted_assignment(
         assign_after(db, SimEmployee(db.events[id].email_simulation), t), id, t)
  ELSE db

\* the history row written by update_risk_score_from_simulation
simulation_history(db, old_score, old_level, e, id, t) ==
  create_risk_history(db, e, history_event_map(db.events[id].event_type),
    old_score, db.rs[e].score, old_level, db.rs[e].risk_level, "TrackingEvent", id, t)

\* update_risk_score_from_simulation once the RiskScore row exists (d0)
simulation_apply(d0, e, id, t) ==
  simulation_assign(
    simulation_history(
      recalculate_and_save(
        RiskScoreSave(count_received(d0, id), e, simulation_counters(d0, id, t), t),
        e, t),
      d0.rs[e].score, d0.rs[e].risk_level, e, id, t),
    id, t)

\* update_risk_score_from_simulation: the post_save receiver of TrackingEvent,
\* run for the freshly inserted event id
update_risk_score_from_simulation(db, id, t) ==
  IF db.events[id].event_type \notin RelevantEvents THEN db
  ELSE simulation_apply(
         get_or_create_risk_score(db, SimEmployee(db.events[id].email_simulation)),
         SimEmployee(db.events[id].email_simulation), id, t)

\* a variant of promote_simulation that promotes on an event of any type
promote_simulation_any(sim, ev) ==
  IF sim.status = "PENDING"
  THEN [sim EXCEPT !.status = "SENT",
                   !.sent_at = IF sim.sent_at = 0 THEN ev.created_at ELSE @]
  ELSE sim

\* the PENDING -> SENT promotion of _update_simulation_stats
promote_simulation(sim, ev) ==
  IF sim.status = "PENDING" /\ ev.event_type \in RelevantEvents
  THEN [sim EXCEPT !.status = "SENT",
                   !.sent_at = IF sim.sent_at = 0 THEN ev.created_at ELSE @]
  ELSE sim

\* a variant of flag_simulation that writes the flag and timestamp on every event
flag_simulation_every(sim, ev) ==
  CASE ev.event_type = "EMAIL_OPENED" ->
         [sim EXCEPT !.was_opened = TRUE, !.first_opened_at = ev.created_at]
    [] ev.event_type = "LINK_CLICKED" ->
         [sim EXCEPT !.was_clicked = TRUE, !.clicked_at = ev.created_at]
    [] ev.event_type = "CREDENTIALS_ENTERED" ->
         [sim EXCEPT !.credentials_entered = TRUE,
                     !.credentials_entered_at = ev.created_at]
    [] ev.event_type = "EMAIL_REPORTED" ->
         [sim EXCEPT !.was_reported = TRUE, !.reported_at = ev.created_at]
    [] OTHER -> sim

\* the flag and first-occurrence timestamp of _update_simulation_stats
flag_simulation(sim, ev) ==
  CASE ev.event_type = "EMAIL_OPENED" /\ ~sim.was_opened ->
         [sim EXCEPT !.was_opened = TRUE, !.first_opened_at = ev.created_at]
    [] ev.event_type = "LINK_CLICKED" /\ ~sim.was_clicked ->
         [sim EXCEPT !.was_clicked = TRUE, !.clicked_at = ev.created_at]
    [] ev.event_type = "CREDENTIALS_ENTERED" /\ ~sim.credentials_entered ->
         [sim EXCEPT !.credentials_entered = TRUE,
                     !.credentials_entered_at = ev.created_at]
    [] ev.event_type = "EMAIL_REPORTED" /\ ~sim.was_reported ->
         [sim EXCEPT !.was_reported = TRUE, !.reported_at = ev.created_at]
    [] OTHER -> sim

\* a variant of update_simulation_stats that writes the flags to every simulation
\* of the campaign
update_simulation_stats_all(db, id) ==
  [db EXCEPT !.sims = [s \in DOMAIN db.sims |->
     IF SimCampaign(s) = SimCampaign(db.events[id].email_simulation)
     THEN flag_simulation(promote_simulation(db.sims[s], db.events[id]), db.events[id])
     ELSE db.sims[s]]]

\* TrackingEvent._update_simulation_stats
update_simulation_stats(db, id) ==
  [db EXCEPT !.sims[db.events[id].email_simulation] =
     flag_simulation(promote_simulation(@, db.events[id]), db.events[id])]

CampaignSims(db, c) == {s \in DOMAIN db.sims : SimCampaign(s) = c}


CountSent(db, c) == Cardinality({s \in CampaignSims(db, c) : db.sims[s].status \notin {"PENDING", "FAILED"}})
CountOpened(db, c) == Cardinality({s \in CampaignSims(db, c) : db.sims[s].was_opened})
CountClicked(db, c) == Cardinality({s \in CampaignSims(db, c) : db.sims[s].was_clicked})
CountReported(db, c) == Cardinality({s \in CampaignSims(db, c) : db.sims[s].was_reported})
CountCredentialsEntered(db, c) ==
  Cardinality({s \in CampaignSims(db, c) : db.sims[s].credentials_entered})

\* a variant of recount_campaign that adds one to the counter of the event type
recount_campaign_adding(db, camp, c, event_type) ==
  [camp EXCEPT
     !.total_sent = CountSent(db, c),
     !.total_opened = IF event_type = "EMAIL_OPENED" THEN @ + 1 ELSE @,
     !.total_clicked = IF event_type = "LINK_CLICKED" THEN @ + 1 ELSE @,
     !.total_credentials_entered = IF event_type = "CREDENTIALS_ENTERED" THEN @ + 1 ELSE @,
     !.total_reported = IF event_type = "EMAIL_REPORTED" THEN @ + 1 ELSE @]

\* the recounts of _update_campaign_stats
recount_campaign(db, camp, c, event_type) ==
  [camp EXCEPT
     !.total_sent = CountSent(db, c),
     !.total_opened = IF event_type = "EMAIL_OPENED"
                      THEN CountOpened(db, c) ELSE @,
     !.total_clicked = IF event_type = "LINK_CLICKED"
                       THEN CountClicked(db, c) ELSE @,
     !.total_credentials_entered = IF event_type = "CREDENTIALS_ENTERED"
                                   THEN CountCredentialsEntered(db, c) ELSE @,
     !.total_reported = IF event_type = "EMAIL_REPORTED"
                        THEN CountReported(db, c) ELSE @]

\* the DRAFT/SCHEDULED -> IN_PROGRESS promotion of _update_campaign_stats
promote_campaign(camp, ev) ==
  IF camp.status \in {"DRAFT", "SCHEDULED"} /\ camp.total_sent > 0
  THEN [camp EXCEPT !.status = "IN_PROGRESS",
                    !.sent_at = IF camp.sent_at = 0 THEN ev.created_at ELSE @]
  ELSE camp

\* TrackingEvent._update_campaign_stats on the campaign object camp held by the
\* caller; the value is the object written by campaign.save()
update_campaign_stats(db, camp, id) ==
  promote_campaign(
    recount_campaign(db, camp, SimCampaign(db.events[id].email_simulation),
                     db.events[id].event_type),
    db.events[id])

\* campaign.save(): the database and the saved object
SaveCampaign(db, c, camp) ==
  [db |-> [db EXCEPT !.campaigns[c] = camp], camp |-> camp]

\* the roll-ups TrackingEvent.save runs after the insert
roll_up(db, camp, id) ==
  SaveCampaign(db, SimCampaign(db.events[id].email_simulation),
               update_campaign_stats(db, camp, id))

\* TrackingEvent.event_data: default=dict
NoData == [k \in {} |-> FALSE]

\* TrackingEvent.objects.create(...): insert (which runs the RiskScore receiver),
\* then the simulation and campaign roll-ups.  camp is the campaign object the
\* caller holds; the value carries the database and that object after the save.
CreateTrackingEvent(db, camp, s, event_type, event_data, t) ==
  roll_up(
    update_simulation_stats(
      update_risk_score_from_simulation(
        [db EXCEPT !.events = Append(@,
           [email_simulation |-> s, event_type |-> event_type,
            event_data |-> event_data, created_at |-> t])],
        Len(db.events) + 1, t),
      Len(db.events) + 1),
    camp, Len(db.events) + 1)

(***************************************************************************)
(* Committing the outcome of a request                                     *)
(***************************************************************************)
Write(d, l) ==
  /\ now < horizon
  /\ Len(d.events) <= MaxEvents
  /\ Len(d.trainings) <= MaxTrainings
  /\ now' = now + 1
  /\ horizon' = horizon
  /\ campaigns' = d.campaigns
  /\ sims' = d.sims
  /\ events' = d.events
  /\ rs' = d.rs
  /\ history' = d.history
  /\ trainings' = d.trainings
  /\ modstats' = d.modstats
  /\ quizzes' = d.quizzes
  /\ results' = d.results
  /\ received' = d.received
  /\ last' = l

\* a request that runs from its first read to its last write in one step
Commit(d, l) ==
  /\ trigger.stack = <<>>
  /\ Write(d, l)
  /\ submitting' = submitting
  /\ trigger' = trigger
  /\ running' = running

\* a request answered without any write
Reject(l) ==
  /\ last' = l
  /\ UNCHANGED <<now, horizon, campaigns, sims, events, rs, history, trainings, modstats,
                 quizzes, results, received, submitting, trigger, running>>

Op(name, c, e, i) == [NoOp EXCEPT !.op = name, !.c = c, !.e = e, !.i = i]

(***************************************************************************)
(* Campaign administration                                                 *)
(***************************************************************************)
EmployeeOrder == <<"e1", "e2">>

\* EmailSimulation rows created with status PENDING for the employees in es
CreateSimulations(db, c, es) ==
  [db EXCEPT
     !.sims = [s \in DOMAIN db.sims \cup {<<c, e>> : e \in es} |->
                 IF s \in DOMAIN db.sims THEN db.sims[s] ELSE NewSimulation],
     !.received = [s \in DOMAIN db.received \cup {<<c, e>> : e \in es} |->
                     IF s \in DOMAIN db.received THEN db.received[s] ELSE 0]]

Existing(db, c) == {e \in Targets(c) : <<c, e>> \in DOMAIN db.sims}

\* SimulationCampaignViewSet._send_simulation_email without its failure
send_simulation_email(st, s, t) ==
  CreateTrackingEvent([st.db EXCEPT !.sims[s].status = "SENT", !.sims[s].sent_at = t],
                      st.camp, s, "EMAIL_SENT", NoData, t)

\* the sending loop of send from the k-th employee on; st = [db, camp] is the
\* database and the campaign object held by the view
RECURSIVE send_loop(_, _, _, _, _, _)
send_loop(st, c, created, fail, t, k) ==
  IF k > Len(EmployeeOrder) THEN st
  ELSE IF EmployeeOrder[k] \notin created THEN send_loop(st, c, created, fail, t, k + 1)
  ELSE IF EmployeeOrder[k] \in fail
  THEN send_loop([st EXCEPT !.db.sims[<<c, EmployeeOrder[k]>>].status = "FAILED"],
                 c, created, fail, t, k + 1)
  ELSE send_loop(send_simulation_email(st, <<c, EmployeeOrder[k]>>, t),
                 c, created, fail, t, k + 1)

\* the end of an immediate send: status, sent_at, campaign.save()
finish_send(st, c, t) ==
  [st.db EXCEPT !.campaigns[c] = [st.camp EXCEPT !.status = "IN_PROGRESS", !.sent_at = t]]

\* the transaction of send for the employees without a simulation (created)
send_campaign(db, c, created, send_immediately, fail, t) ==
  IF send_immediately
  THEN finish_send(
         send_loop([db |-> CreateSimulations(db, c, created),
                    camp |-> [db.campaigns[c] EXCEPT !.total_sent = Cardinality(created)]],
                   c, created, fail, t, 1),
         c, t)
  ELSE [CreateSimulations(db, c, created) EXCEPT
          !.campaigns[c] = [db.campaigns[c] EXCEPT !.total_sent = Cardinality(created),
                                                   !.status = "SCHEDULED"]]

\* SimulationCampaignViewSet.send
Send(c, send_immediately, fail) ==
  /\ campaigns[c].status \in {"DRAFT", "SCHEDULED"}
  /\ send_immediately \/ CampaignConfig(c).has_send_date
  /\ Targets(c) # {}
  /\ fail \subseteq Targets(c) \ Existing(DB, c)
  /\ send_immediately \/ fail = {}
  /\ Commit(send_campaign(DB, c, Targets(c) \ Existing(DB, c), send_immediately, fail, now),
            Op(IF send_immediately THEN "send" ELSE "send_scheduled", c, "", 0))

\* SimulationCampaignViewSet.generate_package with services.generate_email_package
GeneratePackage(c) ==
  /\ campaigns[c].status \in {"DRAFT", "SCHEDULED", "IN_PROGRESS"}
  /\ Targets(c) # {}
  /\ Commit([CreateSimulations(DB, c, Targets(c) \ Existing(DB, c)) EXCEPT
               !.campaigns[c].status = "SCHEDULED"],
            Op("generate_package", c, "", 0))

\* one pass of the RiskScore loop of mark_campaign_emails_sent, row present
mark_sent_row(db, c, e, t) ==
  RiskScoreSaveFields([db EXCEPT !.received[<<c, e>>] = @ + 1], e,
    [db.rs[e] EXCEPT !.total_simulations_received = @ + 1,
                     !.last_simulation_date = t], t)

\* the RiskScore loop of services.mark_campaign_emails_sent, k-th employee on
RECURSIVE mark_sent_loop(_, _, _, _, _)
mark_sent_loop(db, c, pending, t, k) ==
  IF k > Len(EmployeeOrder) THEN db
  ELSE IF EmployeeOrder[k] \notin pending THEN mark_sent_loop(db, c, pending, t, k + 1)
  ELSE mark_sent_loop(
         mark_sent_row(get_or_create_risk_score(db, EmployeeOrder[k]), c, EmployeeOrder[k], t),
         c, pending, t, k + 1)

CountPending(db, c) == Cardinality({s \in CampaignSims(db, c) : db.sims[s].status = "PENDING"})
CountStatusSent(db, c) == Cardinality({s \in CampaignSims(db, c) : db.sims[s].status = "SENT"})

\* the bulk update of the PENDING simulations of campaign c
mark_pending_sent(db, c, t) ==
  [db EXCEPT !.sims = [s \in DOMAIN db.sims |->
     IF SimCampaign(s) = c /\ db.sims[s].status = "PENDING"
     THEN [db.sims[s] EXCEPT !.status = "SENT", !.sent_at = t]
     ELSE db.sims[s]]]

\* the campaign statistics written by mark_campaign_emails_sent
mark_campaign(db, c, t) ==
  [db EXCEPT !.campaigns[c].total_sent = CountStatusSent(db, c),
             !.campaigns[c].status = "IN_PROGRESS",
             !.campaigns[c].sent_at = t]

\* services.mark_campaign_emails_sent
mark_campaign_emails_sent(db, c, t) ==
  mark_sent_loop(mark_campaign(mark_pending_sent(db, c, t), c, t), c,
                 {e \in Existing(db, c) : db.sims[<<c, e>>].status = "PENDING"}, t, 1)

\* SimulationCampaignViewSet.mark_sent
MarkSent(c) ==
  /\ campaigns[c].status \in {"SCHEDULED", "DRAFT"}
  /\ CountPending(DB, c) > 0
  /\ Commit(mark_campaign_emails_sent(DB, c, now), Op("mark_sent", c, "", 0))

\* SimulationCampaignViewSet.complete
Complete(c) ==
  /\ campaigns[c].status \in {"IN_PROGRESS", "SCHEDULED"}
  /\ Commit([DB EXCEPT !.campaigns[c].status = "COMPLETED",
                       !.campaigns[c].completed_at = now],
            Op("complete", c, "", 0))

\* SimulationCampaignViewSet.pause
Pause(c) ==
  /\ campaigns[c].status = "IN_PROGRESS"
  /\ Commit([DB EXCEPT !.campaigns[c].status = "PAUSED"], Op("pause", c, "", 0))

\* SimulationCampaignViewSet.resume
Resume(c) ==
  /\ campaigns[c].status = "PAUSED"
  /\ Commit([DB EXCEPT !.campaigns[c].status = "IN_PROGRESS"], Op("resume", c, "", 0))

(***************************************************************************)
(* Public tracking endpoints                                               *)
(***************************************************************************)
Trackable(c) == campaigns[c].status \in {"IN_PROGRESS", "SCHEDULED"}

\* the request logs an event of event_type with event_data for simulation s and
\* answers resp
Ingest(name, s, event_type, event_data, resp) ==
  Commit(CreateTrackingEvent(DB, campaigns[SimCampaign(s)], s, event_type, event_data, now).db,
         [Op(name, SimCampaign(s), SimEmployee(s), 0) EXCEPT
            !.created = TRUE,
            !.dup = OtherEvents(DB, s, 0, {event_type}) # {},
            !.trackable = Trackable(SimCampaign(s)),
            !.resp = resp])

\* the request is answered with resp without logging an event
Ignored(name, s, resp) ==
  Reject([Op(name, SimCampaign(s), SimEmployee(s), 0) EXCEPT
            !.trackable = Trackable(SimCampaign(s)),
            !.resp = resp])

\* the headers track_pixel_view sets after logging the event
NoCacheHeaders == {"Cache-Control", "Pragma", "Expires"}

\* reverse('simulations:landing-page', kwargs={'link_token': link_token})
landing_url(s) == <<"landing-page", s>>

\* track_pixel_view for the tracking token of simulation s
TrackPixel(s) ==
  /\ s \in DOMAIN sims
  /\ IF Trackable(SimCampaign(s)) /\ CampaignConfig(SimCampaign(s)).track_email_opens
     THEN Ingest("track_pixel", s, "EMAIL_OPENED", NoData, PixelResponse(NoCacheHeaders))
     ELSE Ignored("track_pixel", s, PixelResponse({}))

\* track_pixel_view for a tracking token no EmailSimulation has (here the token
\* of a simulation that was never created)
TrackPixelUnknown(s) ==
  /\ s \notin DOMAIN sims
  /\ Reject([Op("track_pixel", "", "", 0) EXCEPT !.resp = PixelResponse({})])

\* track_link_click_view for the link token of simulation s
TrackLinkClick(s) ==
  /\ s \in DOMAIN sims
  /\ IF ~Trackable(SimCampaign(s))
     THEN Ignored("track_link_click", s, Redirect("/simulation-expired/"))
     ELSE IF CampaignConfig(SimCampaign(s)).track_link_clicks
     THEN Ingest("track_link_click", s, "LINK_CLICKED", NoData, Redirect(landing_url(s)))
     ELSE Ignored("track_link_click", s, Redirect(landing_url(s)))

\* track_link_click_view for a link token no EmailSimulation has
TrackLinkClickUnknown(s) ==
  /\ s \notin DOMAIN sims
  /\ Reject([Op("track_link_click", "", "", 0) EXCEPT !.resp = Redirect("/simulation-error/")])

\* landing_page_view
LandingPageView(s) ==
  /\ s \in DOMAIN sims
  /\ Ingest("landing_page", s, "LANDING_PAGE_VIEWED", NoData, NoResponse)

\* report_phishing_view, no reason given
ReportPhishing(s) ==
  /\ s \in DOMAIN sims
  /\ IF sims[s].was_reported
     THEN Ignored("report_phishing", s, NoResponse)
     ELSE Ingest("report_phishing", s, "EMAIL_REPORTED", NoData, NoResponse)

\* the values request.data.get can return for a field of the fake login form:
\* None for a missing field, or the submitted string
Submitted == {"None", "", "alice", "s3cret"}

\* bool(value) of None or a string
bool(value) == value \notin {"None", ""}

\* event_data that stores the submitted values themselves
credentials_event_data_raw(username, password) ==
  [username_field_filled |-> username, password_field_filled |-> password]

\* the event_data credentials_submitted_view passes to TrackingEvent.objects.create
credentials_event_data(username, password) ==
  [username_field_filled |-> bool(username), password_field_filled |-> bool(password)]

\* credentials_submitted_view with the submitted username and password
CredentialsSubmitted(s, username, password) ==
  /\ s \in DOMAIN sims
  /\ IF CampaignConfig(SimCampaign(s)).track_credentials
     THEN Ingest("credentials_submitted", s, "CREDENTIALS_ENTERED",
                 credentials_event_data(username, password), NoResponse)
     ELSE Ignored("credentials_submitted", s, NoResponse)

\* TrackingEvent.save() of an event that already has a primary key:
\* is_new is false and the receiver sees created = False
ResaveEvent(id) ==
  /\ id \in 1..Len(events)
  /\ Reject([Op("resave_event", SimCampaign(events[id].email_simulation),
                SimEmployee(events[id].email_simulation), id) EXCEPT !.dup = TRUE])

(***************************************************************************)
(* Quiz submission                                                         *)
(***************************************************************************)
\* a variant of determine_risk_level whose third rule needs both conditions
determine_risk_level_both(score, phishing_missed) ==
  IF AtLeast(score, 90) /\ phishing_missed = 0 THEN "LOW"
  ELSE IF AtLeast(score, 70) /\ phishing_missed <= 1 THEN "MEDIUM"
  ELSE IF AtLeast(score, 50) /\ phishing_missed <= 3 THEN "HIGH"
  ELSE "CRITICAL"

\* QuizViewSet._determine_risk_level
determine_risk_level(score, phishing_missed) ==
  IF AtLeast(score, 90) /\ phishing_missed = 0 THEN "LOW"
  ELSE IF AtLeast(score, 70) /\ phishing_missed <= 1 THEN "MEDIUM"
  ELSE IF AtLeast(score, 50) \/ phishing_missed <= 3 THEN "HIGH"
  ELSE "CRITICAL"

Pow10(k) == IF k = 0 THEN 1 ELSE 10 ^ k

\* the fraction of a magnitude
FracPart(a) == LimbVec([i \in 1..NLIMB |-> IF i > FLIMB THEN 0 ELSE a[i]])

\* a magnitude rounded to an integer, nearest, ties to even (ROUND_HALF_EVEN)
RoundHalfEven(a) ==
  IF FracPart(a) = HalfLimbs THEN IntPart(a) + (IntPart(a) % 2)
  ELSE IF GeLimbs(FracPart(a), HalfLimbs) THEN IntPart(a) + 1
  ELSE IntPart(a)

\* decimal places left by a context of max_digits = 5 significant digits for a
\* score with integer part n (a positive score below 1 would take a quiz of more
\* than 100 questions)
SignificantPlaces(n) == IF n >= 100 THEN 2 ELSE IF n >= 10 THEN 3 ELSE 4

\* DecimalField.to_python of a float: Context(prec=5).create_decimal_from_float,
\* as the integer n of units 10^-places
create_decimal_from_float(a) ==
  [n |-> IntPart(a) * Pow10(SignificantPlaces(IntPart(a)))
           + RoundHalfEven(MulExact(FracPart(a), Pow10(SignificantPlaces(IntPart(a))))),
   places |-> SignificantPlaces(IntPart(a))]

\* the decimal d quantized to hundredths; a tie goes to the even hundredth
\* (utils.format_number) or, with half_up, away from zero (a numeric(5,2) column)
quantize(d, half_up) ==
  LET unit == Pow10(d.places - 2)
      q == d.n \div unit
      r == d.n % unit
  IN  IF 2 * r > unit THEN q + 1
      ELSE IF 2 * r = unit THEN (IF half_up THEN q + 1 ELSE q + (q % 2))
      ELSE q

\* the values, in hundredths, the column score = DecimalField(max_digits=5,
\* decimal_places=2) can hold for the float score, over the database backends
StoredScores(score) ==
  {quantize(create_decimal_from_float(score), half_up) : half_up \in BOOLEAN}

\* the QuizResult row built by _calculate_quiz_result; the answers of the quiz
\* are summarised by their counts out == <<total, correct, phishing_missed>>;
\* score is the float the instance keeps, stored the value of the column
QuizResultRow(q, out, score, stored) ==
  [quiz |-> q, employee |-> QuizEmployee(q),
   total_questions |-> out[1], correct_answers |-> out[2],
   incorrect_answers |-> out[1] - out[2],
   score |-> score,
   score_stored |-> stored,
   phishing_emails_missed |-> out[3],
   risk_level |-> determine_risk_level(score, out[3])]

\* QuizResult.passed on the instance that was created (float score) and on an
\* instance loaded from the database (decimal score)
QuizResult_passed(res) == AtLeast(res.score, 70)
QuizResult_passed_loaded(res) == res.score_stored >= 70 * 100

\* QuizResult.objects.create(...), which runs the RiskScore receiver, then quiz.save()
submit_quiz_result(db, q, res, t) ==
  [update_risk_score_from_quiz([db EXCEPT !.results = Append(@, res)], q, res, t)
     EXCEPT !.quizzes[q] = "COMPLETED"]

\* QuizViewSet.submit with _calculate_quiz_result, run without another submit
\* request of the quiz in between
SubmitQuiz(q, out) ==
  /\ quizzes[q] # "COMPLETED"
  /\ \E stored \in StoredScores(quiz_score(out[2], out[1])) :
       Commit(submit_quiz_result(DB, q,
                QuizResultRow(q, out, quiz_score(out[2], out[1]), stored), now),
              [Op("submit_quiz", "", QuizEmployee(q), 0) EXCEPT !.q = q])

\* a variant of the QuizResult table without the unique quiz column
quiz_has_result_never(db, q) == FALSE

\* the unique constraint of QuizResult.quiz: a row for quiz q already exists
quiz_has_result(db, q) == \E i \in 1..Len(db.results) : db.results[i].quiz = q

\* QuizViewSet.submit called for a quiz whose status is COMPLETED: 400
SubmitCompleted(q) ==
  /\ quizzes[q] = "COMPLETED"
  /\ Reject([Op("submit_quiz_completed", "", QuizEmployee(q), 0) EXCEPT !.q = q])

\* QuizViewSet.submit of request r up to the status check: the quiz it loaded is
\* not COMPLETED
SubmitBegin(r, q) ==
  /\ quizzes[q] # "COMPLETED"
  /\ \A x \in submitting : x[1] # r
  /\ submitting' = submitting \cup {<<r, q>>}
  /\ last' = [Op("submit_quiz_begin", "", QuizEmployee(q), 0) EXCEPT !.q = q]
  /\ UNCHANGED <<now, horizon, campaigns, sims, events, rs, history, trainings, modstats,
                 quizzes, results, received, trigger, running>>

\* QuizViewSet.submit of request r from transaction.atomic() on: the INSERT of the
\* QuizResult fails on the unique quiz column if another request has written one
\* (IntegrityError, the transaction is rolled back); otherwise the result is
\* created, the receiver runs and the quiz is saved as COMPLETED
SubmitFinish(r, q, out) ==
  /\ <<r, q>> \in submitting
  /\ submitting' = submitting \ {<<r, q>>}
  /\ trigger' = trigger
  /\ running' = running
  /\ IF quiz_has_result(DB, q)
     THEN /\ last' = [Op("submit_quiz_conflict", "", QuizEmployee(q), 0) EXCEPT !.q = q]
          /\ UNCHANGED <<now, horizon, campaigns, sims, events, rs, history, trainings,
                         modstats, quizzes, results, received>>
     ELSE \E stored \in StoredScores(quiz_score(out[2], out[1])) :
            Write(submit_quiz_result(DB, q,
                    QuizResultRow(q, out, quiz_score(out[2], out[1]), stored), now),
                  [Op("submit_quiz", "", QuizEmployee(q), 0) EXCEPT !.q = q])

(***************************************************************************)
(* RiskScore administration                                                *)
(***************************************************************************)
\* RiskScoreViewSet.partial_update, score validated by RiskScoreUpdateSerializer
ManualAdjust(e, new_score) ==
  /\ e \in DOMAIN rs
  /\ new_score \in 0..100
  /\ Commit(create_risk_history(
              RiskScoreSave(DB, e, [rs[e] EXCEPT !.score = new_score], now),
              e, "MANUAL_ADJUSTMENT", rs[e].score, new_score,
              rs[e].risk_level, calculate_risk_level(new_score),
              "ManualAdjustment", 0, now),
            Op("manual_adjust", "", e, 0))

\* the history row of recalculate, written when the score changed
recalculate_history(db, e, old_score, t) ==
  IF db.rs[e].score # old_score
  THEN create_risk_history(db, e, "SCORE_RECALCULATED", old_score, db.rs[e].score,
         calculate_risk_level(db.rs[e].score), db.rs[e].risk_level, "", 0, t)
  ELSE db

\* the loop of RiskScoreViewSet.recalculate over the rows fetched at its start
RECURSIVE recalculate_loop(_, _, _, _, _)
recalculate_loop(db, rows, ids, t, k) ==
  IF k > Len(EmployeeOrder) THEN db
  ELSE IF EmployeeOrder[k] \notin ids THEN recalculate_loop(db, rows, ids, t, k + 1)
  ELSE recalculate_loop(
         recalculate_history(
           RiskScoreSave(db, EmployeeOrder[k], recalculate_score(rows[EmployeeOrder[k]]), t),
           EmployeeOrder[k], rows[EmployeeOrder[k]].score, t),
         rows, ids, t, k + 1)

\* RiskScoreViewSet.recalculate for the rows of the employees in ids
Recalculate(ids) ==
  /\ ids # {}
  /\ ids \subseteq DOMAIN rs
  /\ Commit(recalculate_loop(DB, rs, ids, now, 1), Op("recalculate", "", "", 0))

(***************************************************************************)
(* Remediation training                                                    *)
(***************************************************************************)
\* RemediationTraining.start_training
start_training(db, i, t) ==
  IF db.trainings[i].status = "ASSIGNED"
  THEN [db EXCEPT !.trainings[i].status = "IN_PROGRESS", !.trainings[i].started_at = t]
  ELSE db

\* RemediationTrainingViewSet.start
StartTraining(i) ==
  /\ i \in 1..Len(trainings)
  /\ trainings[i].status = "ASSIGNED"
  /\ Commit(start_training(DB, i, now), Op("start_training", "", trainings[i].employee, i))

\* RemediationTrainingViewSet.view_content with mark_content_viewed
ViewContent(i) ==
  /\ i \in 1..Len(trainings)
  /\ ~trainings[i].content_viewed
  /\ Commit([start_training(DB, i, now) EXCEPT !.trainings[i].content_viewed = TRUE],
            Op("view_content", "", trainings[i].employee, i))

\* score >= passing_score in RemediationTraining.submit_quiz
quiz_passed(m, correct) ==
  AtLeast(quiz_score(correct, ModuleConfig(m).questions), ModuleConfig(m).passing_score)

\* RemediationTraining.submit_quiz and the module statistics of the view
record_quiz(db, i, m, correct, passed, t) ==
  [db EXCEPT
     !.trainings[i] =
        [@ EXCEPT !.risk_score_before =
                     IF db.trainings[i].employee \in DOMAIN db.rs
                     THEN db.rs[db.trainings[i].employee].score ELSE @,
                  !.quiz_attempts = @ + 1,
                  !.quiz_score_passed = passed,
                  !.correct_answers = correct,
                  !.total_questions = ModuleConfig(m).questions,
                  !.completed_at = t,
                  !.status = IF passed THEN "PASSED" ELSE "FAILED"],
     !.modstats[m] =
        [@ EXCEPT !.times_completed = @ + 1,
                  !.times_passed = IF passed THEN @ + 1 ELSE @]]

\* the end of the passed branch: risk_score_after and the history row
passed_history(db, e, i, old_score, t) ==
  create_risk_history([db EXCEPT !.trainings[i].risk_score_after = db.rs[e].score],
    e, "TRAINING_PASSED", old_score, db.rs[e].score,
    calculate_risk_level(db.rs[e].score), db.rs[e].risk_level,
    "RemediationTraining", i, t)

\* the score reduction of the passed branch, after refresh_from_db
passed_reduce(db, e, m, i, old_score, t) ==
  passed_history(
    RiskScoreSave(db, e,
      [db.rs[e] EXCEPT !.score = Max2(0, @ - ModuleConfig(m).score_reduction_on_pass)], t),
    e, i, old_score, t)

\* the passed branch of the view
training_passed(db, e, m, i, t) ==
  passed_reduce(
    RiskScoreSave(db, e, [db.rs[e] EXCEPT !.trainings_completed = @ + 1,
                                          !.trainings_passed = @ + 1,
                                          !.last_training_date = t], t),
    e, m, i, db.rs[e].score, t)

\* the failed branch of the view
training_failed(db, e, i, t) ==
  create_risk_history(
    RiskScoreSave(db, e, [db.rs[e] EXCEPT !.trainings_completed = @ + 1,
                                          !.last_training_date = t], t),
    e, "TRAINING_FAILED", db.rs[e].score, db.rs[e].score,
    calculate_risk_level(db.rs[e].score), calculate_risk_level(db.rs[e].score),
    "RemediationTraining", i, t)

\* the RiskScore part of the view, run on the recorded quiz
training_outcome(db, e, m, i, passed, t) ==
  IF e \notin DOMAIN db.rs THEN db
  ELSE IF passed THEN training_passed(db, e, m, i, t)
  ELSE training_failed(db, e, i, t)

\* RemediationTrainingViewSet.submit_quiz with RemediationTraining.submit_quiz
SubmitTrainingQuiz(i, correct) ==
  /\ i \in 1..Len(trainings)
  /\ trainings[i].status \notin {"PASSED", "COMPLETED"}
  /\ trainings[i].content_viewed
  /\ correct \in 0..ModuleConfig(trainings[i].training_module).questions
  /\ Commit(training_outcome(
              record_quiz(DB, i, trainings[i].training_module, correct,
                          quiz_passed(trainings[i].training_module, correct), now),
              trainings[i].employee, trainings[i].training_module, i,
              quiz_passed(trainings[i].training_module, correct), now),
            Op("submit_training_quiz", "", trainings[i].employee, i))

\* one pass of the loop of bulk_assign for an employee without an open assignment
bulk_assign_one(db, e, m, t) ==
  IF e \in DOMAIN db.rs
  THEN RiskScoreSaveFields(db, e, [db.rs[e] EXCEPT !.trainings_assigned = @ + 1], t)
  ELSE db

\* the loop of RemediationTrainingViewSet.bulk_assign, k-th employee on
RECURSIVE bulk_assign_loop(_, _, _, _, _)
bulk_assign_loop(db, ids, m, t, k) ==
  IF k > Len(EmployeeOrder) THEN db
  ELSE IF EmployeeOrder[k] \notin ids \/ HasOpenAssignment(db, EmployeeOrder[k], m)
  THEN bulk_assign_loop(db, ids, m, t, k + 1)
  ELSE bulk_assign_loop(
         bulk_assign_one(
           BumpModule([db EXCEPT !.trainings = Append(@,
                         NewTraining(EmployeeOrder[k], m, "MANUAL_ADMIN", "", 0, t))],
                      m, "times_assigned"),
           EmployeeOrder[k], m, t),
         ids, m, t, k + 1)

\* RemediationTrainingViewSet.bulk_assign
BulkAssign(ids, m) ==
  /\ ids # {}
  /\ Commit(bulk_assign_loop(DB, ids, m, now, 1), Op("bulk_assign", "", "", 0))

\* RemediationTrainingViewSet.create with RemediationTrainingCreateSerializer
AdminAssign(e, m) ==
  /\ ~HasOpenAssignment(DB, e, m)
  /\ Commit([DB EXCEPT !.trainings = Append(@, NewTraining(e, m, "MANUAL_ADMIN", "", 0, now))],
            Op("admin_assign", "", e, 0))

(***************************************************************************)
(* The system                                                              *)
(***************************************************************************)
Sims == {<<c, e>> : c \in Campaigns, e \in Employees}

\* submit requests that can be in flight at the same time
Requests == {"r1", "r2"}

\* quiz outcomes <<total, correct, phishing_missed>>
QuizOutcomes == {<<MaxQuestions, MaxQuestions, 0>>, <<MaxQuestions, MaxQuestions - 1, 1>>,
                 <<MaxQuestions, 0, MaxQuestions>>}

\* numbers of correct answers given to a training quiz
TrainingCorrect == {3, 4}


Next ==
  \/ \E c \in Campaigns : \E b \in BOOLEAN : \E fail \in SUBSET Employees : Send(c, b, fail)
  \/ \E c \in Campaigns : GeneratePackage(c)
  \/ \E c \in Campaigns : MarkSent(c)
  \/ \E c \in Campaigns : Complete(c)
  \/ \E c \in Campaigns : Pause(c)
  \/ \E c \in Campaigns : Resume(c)
  \/ \E s \in Sims : TrackPixel(s)
  \/ \E s \in Sims : TrackLinkClick(s)
  \/ \E s \in Sims : TrackPixelUnknown(s)
  \/ \E s \in Sims : TrackLinkClickUnknown(s)
  \/ \E s \in Sims : LandingPageView(s)
  \/ \E s \in Sims : ReportPhishing(s)
  \/ \E s \in Sims : \E u, p \in Submitted : CredentialsSubmitted(s, u, p)
  \/ \E id \in 1..MaxEvents : ResaveEvent(id)
  \/ \E q \in Quizzes : \E out \in QuizOutcomes : SubmitQuiz(q, out)
  \/ \E q \in Quizzes : SubmitCompleted(q)
  \/ \E r \in Requests : \E q \in Quizzes : SubmitBegin(r, q)
  \/ \E r \in Requests : \E q \in Quizzes : \E out \in QuizOutcomes : SubmitFinish(r, q, out)
  \/ \E e \in Employees : \E x \in AdjustScores : ManualAdjust(e, x)
  \/ \E ids \in SUBSET Employees : Recalculate(ids)
  \/ \E i \in 1..MaxTrainings : StartTraining(i)
  \/ \E i \in 1..MaxTrainings : ViewContent(i)
  \/ \E i \in 1..MaxTrainings : \E k \in TrainingCorrect : SubmitTrainingQuiz(i, k)
  \/ \E ids \in SUBSET Employees : \E m \in Modules : BulkAssign(ids, m)
  \/ \E e \in Employees : \E m \in Modules : AdminAssign(e, m)

Spec == Init /\ [][Next]_vars

(***************************************************************************)
(* The risk engine of one employee: every writer of the RiskScore of e1    *)
(***************************************************************************)
MaxTimeRisk == 6

InitRisk == InitRows /\ horizon = MaxTimeRisk

NextRisk ==
  \/ Send("c1", TRUE, {})
  \/ GeneratePackage("c1")
  \/ MarkSent("c1")
  \/ TrackPixel(<<"c1", "e1">>)
  \/ TrackLinkClick(<<"c1", "e1">>)
  \/ ReportPhishing(<<"c1", "e1">>)
  \/ CredentialsSubmitted(<<"c1", "e1">>, "alice", "s3cret")
  \/ \E out \in QuizOutcomes : SubmitQuiz("q1", out)
  \/ \E x \in AdjustScores : ManualAdjust("e1", x)
  \/ Recalculate({"e1"})
  \/ BulkAssign({"e1"}, "m1")
  \/ \E i \in 1..MaxTrainings : ViewContent(i)
  \/ \E i \in 1..MaxTrainings : \E k \in TrainingCorrect : SubmitTrainingQuiz(i, k)

SpecRisk == InitRisk /\ [][NextRisk]_vars

\* C1: the stored score of every employee is an integer between 0 and 100 in
\* every state reached by quiz results, tracking events, bulk mark-sent,
\* training submissions, manual adjustments and recalculations.
ScoreInRange == \A e \in DOMAIN rs : rs[e].score \in 0..100

\* a stored score of 100 whose adjustments add up to more than 100, or a stored
\* score of 0 left by a passed training
ScoreClamped ==
  \E e \in DOMAIN rs :
     \/ rs[e].score = 100 /\ raw_score(rs[e]) > 100 /\ last.op \in {"submit_quiz", "track_link_click"}
     \/ rs[e].score = 0 /\ last.op = "submit_training_quiz" /\ rs[e].trainings_passed > 0

(***************************************************************************)
(* Replay of tracking events: one simulation of c1, its events logged      *)
(* again and re-saved, with the training and the adjustment that may come  *)
(* between two events of the same type.                                    *)
(***************************************************************************)
MaxTimeReplay == 7

InitReplay == InitRows /\ horizon = MaxTimeReplay

NextReplay ==
  \/ Send("c1", TRUE, {})
  \/ TrackPixel(<<"c1", "e1">>)
  \/ TrackLinkClick(<<"c1", "e1">>)
  \/ ReportPhishing(<<"c1", "e1">>)
  \/ CredentialsSubmitted(<<"c1", "e1">>, "alice", "s3cret")
  \/ \E id \in 1..MaxEvents : ResaveEvent(id)
  \/ ManualAdjust("e1", 0)
  \/ \E i \in 1..MaxTrainings : ViewContent(i)
  \/ \E i \in 1..MaxTrainings : SubmitTrainingQuiz(i, 3)

SpecReplay == InitReplay /\ [][NextReplay]_vars

\* the counters of a RiskScore row fed by tracking events
EventCounters(row) ==
  <<row.total_simulations_received, row.simulations_opened, row.simulations_clicked,
    row.simulations_reported, row.credentials_entered>>

\* every counter of a RiskScore row
AllCounters(row) ==
  <<row.total_quizzes_taken, row.total_quiz_questions, row.correct_quiz_answers,
    row.phishing_emails_missed, row.total_simulations_received, row.simulations_opened,
    row.simulations_clicked, row.simulations_reported, row.credentials_entered,
    row.trainings_assigned, row.trainings_completed, row.trainings_passed>>

\* the step re-saves a recorded event or logs a second relevant event of a type
\* the simulation already has
IsReplay(l) ==
  /\ l.dup
  /\ l.op \in {"resave_event", "track_pixel", "track_link_click", "report_phishing",
               "credentials_submitted"}

MaxTimeTracking == 4

InitTracking == InitRows /\ horizon = MaxTimeTracking

NextTracking ==
  \/ \E c \in Campaigns : \E b \in BOOLEAN : \E fail \in SUBSET Employees : Send(c, b, fail)
  \/ \E c \in Campaigns : GeneratePackage(c)
  \/ \E c \in Campaigns : MarkSent(c)
  \/ \E c \in Campaigns : Complete(c)
  \/ \E c \in Campaigns : Pause(c)
  \/ \E c \in Campaigns : Resume(c)
  \/ \E s \in Sims : TrackPixel(s)
  \/ \E s \in Sims : TrackLinkClick(s)
  \/ \E s \in Sims : LandingPageView(s)
  \/ \E s \in Sims : ReportPhishing(s)
  \/ \E s \in Sims : CredentialsSubmitted(s, "alice", "s3cret")
  \/ \E id \in 1..MaxEvents : ResaveEvent(id)

SpecTracking == InitTracking /\ [][NextTracking]_vars

\* the simulations of employee e
EmployeeSims(e) == {s \in DOMAIN sims : SimEmployee(s) = e}

RECURSIVE SumReceived(_)
SumReceived(S) ==
  IF S = {} THEN 0
  ELSE received[CHOOSE s \in S : TRUE] + SumReceived(S \ {CHOOSE s \in S : TRUE})

FlagFields ==
  {<<"was_opened", "first_opened_at">>, <<"was_clicked", "clicked_at">>,
   <<"was_reported", "reported_at">>, <<"credentials_entered", "credentials_entered_at">>}

\* C4: a flag of an EmailSimulation that is true stays true in every later step,
\* and its paired timestamp keeps the value the first event of that type wrote.
FlagsNeverRevert ==
  [][\A s \in DOMAIN sims :
       /\ s \in DOMAIN sims'
       /\ \A f \in FlagFields :
            sims[s][f[1]] => sims'[s][f[1]] /\ sims'[s][f[2]] = sims[s][f[2]]]_vars

\* a second LINK_CLICKED event arrived later than the first and clicked_at is
\* still the time of the first
ClickedTwiceKeepsFirst ==
  \E j, k \in 1..Len(events) :
     /\ j < k
     /\ events[j].event_type = "LINK_CLICKED" /\ events[k].event_type = "LINK_CLICKED"
     /\ events[j].email_simulation = events[k].email_simulation
     /\ events[j].created_at < events[k].created_at
     /\ sims[events[j].email_simulation].was_clicked
     /\ sims[events[j].email_simulation].clicked_at = events[j].created_at

\* C5 (as stated): in every reachable state campaign.total_sent is the number of the
\* campaign's simulations whose status is neither PENDING nor FAILED.
TotalSentMatchesStatus ==
  \A c \in Campaigns : campaigns[c].total_sent = CountSent(DB, c)

\* C6: in every reachable state total_opened, total_clicked, total_reported and
\* total_credentials_entered of a campaign are the numbers of its simulations with
\* the flag was_opened, was_clicked, was_reported, credentials_entered set.
CountersMatchFlags ==
  \A c \in Campaigns :
     /\ campaigns[c].total_opened = CountOpened(DB, c)
     /\ campaigns[c].total_clicked = CountClicked(DB, c)
     /\ campaigns[c].total_reported = CountReported(DB, c)
     /\ campaigns[c].total_credentials_entered = CountCredentialsEntered(DB, c)

\* one of two simulations of a campaign was opened twice: total_opened is 1
OpenedTwiceCountedOnce ==
  \E c \in Campaigns :
     /\ last.op = "track_pixel" /\ last.dup /\ last.c = c
     /\ Cardinality(CampaignSims(DB, c)) = 2
     /\ campaigns[c].total_opened = 1

\* the four ingest operations
IngestOps == {"track_pixel", "track_link_click", "report_phishing", "credentials_submitted"}

\* what C8 says an ignored request leaves alone
Tracked(ss, cs, rr) ==
  <<[s \in DOMAIN ss |-> <<ss[s].status, ss[s].was_opened, ss[s].was_clicked,
                           ss[s].was_reported, ss[s].credentials_entered>>],
    cs, rr>>

\* C8 (as stated): an ingest operation on a simulation whose campaign is not
\* IN_PROGRESS or SCHEDULED changes no simulation flag or status, no campaign
\* counter or status and no RiskScore.
UntrackableIngestIgnored ==
  [][(last'.op \in IngestOps /\ ~last'.trackable) =>
       Tracked(sims', campaigns', rs') = Tracked(sims, campaigns, rs)]_vars

(***************************************************************************)
(* Remediation assignment: every way a RemediationTraining of e1 or e2 is  *)
(* created, started and closed.                                            *)
(***************************************************************************)
MaxTimeTraining == 6

InitTraining == InitRows /\ horizon = MaxTimeTraining

NextTraining ==
  \/ Send("c1", TRUE, {})
  \/ TrackLinkClick(<<"c1", "e1">>)
  \/ CredentialsSubmitted(<<"c1", "e1">>, "alice", "s3cret")
  \/ \E x \in AdjustScores : ManualAdjust("e1", x)
  \/ Recalculate({"e1"})
  \/ \E ids \in SUBSET Employees : BulkAssign(ids, "m1")
  \/ \E e \in Employees : AdminAssign(e, "m1")
  \/ \E i \in 1..MaxTrainings : StartTraining(i)
  \/ \E i \in 1..MaxTrainings : ViewContent(i)
  \/ \E i \in 1..MaxTrainings : \E k \in TrainingCorrect : SubmitTrainingQuiz(i, k)

SpecTraining == InitTraining /\ [][NextTraining]_vars

\* the open (ASSIGNED or IN_PROGRESS) assignments of module m to employee e
OpenAssignments(e, m) ==
  {i \in 1..Len(trainings) :
      /\ trainings[i].employee = e
      /\ trainings[i].training_module = m
      /\ trainings[i].status \in {"ASSIGNED", "IN_PROGRESS"}}

\* C7: no (employee, training module) pair ever has more than one
\* RemediationTraining in status ASSIGNED or IN_PROGRESS.
OneOpenAssignment ==
  \A e \in Employees : \A m \in Modules : Cardinality(OpenAssignments(e, m)) <= 1

\* the automatic trigger ran twice in a row on a score above 70 (two manual
\* adjustments) and the employee holds exactly one open assignment of m1
TriggeredTwiceAssignedOnce ==
  /\ Len(history) >= 2
  /\ history[Len(history)].event_type = "MANUAL_ADJUSTMENT"
  /\ history[Len(history)].new_score > 70
  /\ history[Len(history) - 1].event_type = "MANUAL_ADJUSTMENT"
  /\ history[Len(history) - 1].new_score > 70
  /\ last.op = "manual_adjust"
  /\ Cardinality(OpenAssignments("e1", "m1")) = 1

\* the band of a score
Band(score) ==
  IF score <= 30 THEN "LOW"
  ELSE IF score \in 31..60 THEN "MEDIUM"
  ELSE IF score \in 61..80 THEN "HIGH"
  ELSE "CRITICAL"

\* C9: in every persisted RiskScore row risk_level is the band of score and
\* requires_remediation is true exactly when score > 70.
DerivedFieldsMatchScore ==
  \A e \in DOMAIN rs :
     /\ rs[e].risk_level = Band(rs[e].score)
     /\ rs[e].requires_remediation = (rs[e].score > 70)

\* a row whose score an administrator set above 80 was then written by a save of
\* single fields (bulk assignment) and is still CRITICAL and flagged
PartialSaveKeepsDerived ==
  /\ last.op = "bulk_assign"
  /\ "e1" \in DOMAIN rs
  /\ rs["e1"].score = 100
  /\ rs["e1"].risk_level = "CRITICAL"
  /\ rs["e1"].requires_remediation
  /\ \E i \in 1..Len(history) : history[i].event_type = "MANUAL_ADJUSTMENT"

(***************************************************************************)
(* recalculate_score as a function of the counters: the row of e1 starts   *)
(* with counters drawn from bounded ranges and is recalculated.            *)
(***************************************************************************)
MaxTimeScore == 2

\* the values drawn for the capped counters
CappedCounts == {0, 1, MaxCount}

InitScore ==
  /\ horizon = MaxTimeScore
  /\ now = 1
  /\ campaigns = [c \in Campaigns |-> NewCampaign]
  /\ sims = <<>>
  /\ events = <<>>
  /\ history = <<>>
  /\ trainings = <<>>
  /\ modstats = [m \in Modules |-> [times_assigned |-> 0, times_completed |-> 0, times_passed |-> 0]]
  /\ quizzes = [q \in Quizzes |-> "NOT_STARTED"]
  /\ results = <<>>
  /\ received = <<>>
  /\ submitting = {}
  /\ trigger = TriggerIdle
  /\ running = [h \in Handlers |-> HandlerIdle]
  /\ last = NoOp
  /\ \E total \in 0..MaxCount : \E correct \in 0..total :
     \E got \in 0..MaxCount : \E clicked \in 0..got :
     \E missed \in CappedCounts : \E creds \in CappedCounts :
     \E reported \in {0, MaxCount} : \E passed \in {0, MaxCount} :
        rs = [e \in {"e1"} |->
                [NewRiskScore EXCEPT !.total_quiz_questions = total,
                                     !.correct_quiz_answers = correct,
                                     !.total_simulations_received = got,
                                     !.simulations_clicked = clicked,
                                     !.phishing_emails_missed = missed,
                                     !.credentials_entered = creds,
                                     !.simulations_reported = reported,
                                     !.trainings_passed = passed]]

NextScore == Recalculate({"e1"})

SpecScore == InitScore /\ [][NextScore]_vars

\* floor(a / b) and the truncation of a / b toward zero, for b > 0
FloorDiv(a, b) == IF a >= 0 THEN a \div b ELSE 0 - ((0 - a + b - 1) \div b)
TruncDiv(a, b) == IF a >= 0 THEN a \div b ELSE 0 - ((0 - a) \div b)

\* the integer next to n toward zero
TowardZero(n) == IF n > 0 THEN n - 1 ELSE IF n < 0 THEN n + 1 ELSE 0

\* the other terms of the formula, and the clamp
OtherTerms(row) ==
  Min2(5 * row.phishing_emails_missed, 25)
  + (IF row.total_simulations_received > 0
     THEN FloorDiv(30 * row.simulations_clicked, row.total_simulations_received) ELSE 0)
  + Min2(15 * row.credentials_entered, 20)
  - Min2(5 * row.simulations_reported, 15)
  - Min2(10 * row.trainings_passed, 25)

Clamp(x) == Max2(0, Min2(100, x))

\* the quiz terms the amended formula admits: (0.5 - correct/total) * 40 is
\* 20 * (total - 2 * correct) / total; truncated toward zero when that is no
\* integer, and when it is an integer n, n or the integer next to n toward zero
QuizTerms(correct, total) ==
  IF total = 0 THEN {0}
  ELSE IF (20 * (total - 2 * correct)) % total = 0
  THEN {TruncDiv(20 * (total - 2 * correct), total),
        TowardZero(TruncDiv(20 * (total - 2 * correct), total))}
  ELSE {TruncDiv(20 * (total - 2 * correct), total)}

MaxTimeClicks == 8

ClickCampaigns == {"c1", "c2", "c3"}

\* the simulations generate_package left for the campaigns in cs
PackagedSims(cs) == {s \in (cs \X Employees) : s[2] \in Targets(s[1])}

InitClicks ==
  /\ horizon = MaxTimeClicks
  /\ now = 1
  /\ campaigns = [c \in ClickCampaigns |->
                    IF c = "c1" THEN NewCampaign ELSE [NewCampaign EXCEPT !.status = "SCHEDULED"]]
  /\ sims = [s \in PackagedSims({"c2", "c3"}) |-> NewSimulation]
  /\ received = [s \in PackagedSims({"c2", "c3"}) |-> 0]
  /\ events = <<>>
  /\ rs = <<>>
  /\ history = <<>>
  /\ trainings = <<>>
  /\ modstats = [m \in Modules |-> [times_assigned |-> 0, times_completed |-> 0, times_passed |-> 0]]
  /\ quizzes = [q \in Quizzes |-> "NOT_STARTED"]
  /\ results = <<>>
  /\ submitting = {}
  /\ trigger = TriggerIdle
  /\ running = [h \in Handlers |-> HandlerIdle]
  /\ last = NoOp

NextClicks ==
  \/ \E b \in BOOLEAN : Send("c1", b, {})
  \/ \E c \in ClickCampaigns : MarkSent(c)
  \/ \E c \in ClickCampaigns : TrackLinkClick(<<c, "e1">>)

SpecClicks == InitClicks /\ [][NextClicks]_vars

\* the simulations of employee e that have a LINK_CLICKED event
ClickedSims(e) ==
  {s \in DOMAIN sims : SimEmployee(s) = e /\ OtherEvents(DB, s, 0, {"LINK_CLICKED"}) # {}}

\* the relevant events logged for employee e
RelevantOf(e) ==
  {j \in 1..Len(events) : SimEmployee(events[j].email_simulation) = e
                          /\ events[j].event_type \in RelevantEvents}

\* the only activity of e is one LINK_CLICKED event on each of three simulations
ThreeClicksOnly(e) ==
  /\ Cardinality(ClickedSims(e)) = 3
  /\ Cardinality(RelevantOf(e)) = 3
  /\ \A j \in RelevantOf(e) : events[j].event_type = "LINK_CLICKED"
  /\ \A i \in 1..Len(history) : history[i].employee = e => history[i].event_type = "SIMULATION_CLICKED"
  /\ \A i \in 1..Len(trainings) : trainings[i].employee = e => trainings[i].status = "ASSIGNED"

\* C11: an employee without prior activity whose only events are LINK_CLICKED
\* events on three distinct received simulations has total_simulations_received 3,
\* simulations_clicked 3, score 80, risk_level HIGH and requires_remediation true.
ThreeClicksScore80 ==
  ThreeClicksOnly("e1") =>
    /\ "e1" \in DOMAIN rs
    /\ rs["e1"].total_simulations_received = 3
    /\ rs["e1"].simulations_clicked = 3
    /\ rs["e1"].score = 80
    /\ rs["e1"].risk_level = "HIGH"
    /\ rs["e1"].requires_remediation

\* the third click has just arrived, with one simulation delivered by an immediate
\* send and another counted as received by bulk mark-sent before its click
ThirdClickArrived ==
  /\ ThreeClicksOnly("e1")
  /\ last.op = "track_link_click"
  /\ OtherEvents(DB, <<"c1", "e1">>, 0, {"EMAIL_SENT"}) # {}
  /\ \E s \in ClickedSims("e1") :
        /\ OtherEvents(DB, s, 0, {"EMAIL_SENT"}) = {}
        /\ \E j \in RelevantOf("e1") : events[j].email_simulation = s /\ sims[s].sent_at < events[j].created_at
  /\ rs["e1"].score = 80

\* the score and the cumulative counters of a RiskScore row
ScoreAndCounters(row) == <<row.score, AllCounters(row)>>

\* the number of RiskScoreHistory rows of employee e in the log h
HistoryCount(h, e) == Cardinality({i \in 1..Len(h) : h[i].employee = e})

\* the step changed the score or a counter of the RiskScore of e (a row created in
\* the step is compared with the defaults it is created with)
RiskScoreChanged(before, after, e) ==
  /\ e \in DOMAIN after
  /\ ScoreAndCounters(after[e]) #
       ScoreAndCounters(IF e \in DOMAIN before THEN before[e] ELSE NewRiskScore)

\* C12 (as stated): every operation that changes the score or a cumulative counter
\* of a RiskScore appends exactly one RiskScoreHistory row for that employee.
EveryChangeLogged ==
  [][\A e \in Employees :
       RiskScoreChanged(rs, rs', e) => HistoryCount(history', e) = HistoryCount(history, e) + 1]_vars

(***************************************************************************)
(* The awareness quiz of one employee, submitted with every outcome of a   *)
(* quiz of up to MaxQuizLen questions.                                     *)
(***************************************************************************)
MaxTimeQuiz == 2
MaxQuizLen == 10

\* outcomes <<total, correct, phishing_missed>>: the missed phishing emails are
\* among the wrong answers
AllQuizOutcomes ==
  {out \in (0..MaxQuizLen) \X (0..MaxQuizLen) \X (0..4) :
      out[2] <= out[1] /\ out[3] <= out[1] - out[2]}

InitQuiz == InitRows /\ horizon = MaxTimeQuiz

NextQuiz == \E out \in AllQuizOutcomes : SubmitQuiz("q1", out)

SpecQuiz == InitQuiz /\ [][NextQuiz]_vars

\* the first matching rule on the exact percentage 100 * correct / total
FirstRule(correct, total, missed) ==
  IF total > 0 /\ 100 * correct >= 90 * total /\ missed = 0 THEN "LOW"
  ELSE IF total > 0 /\ 100 * correct >= 70 * total /\ missed <= 1 THEN "MEDIUM"
  ELSE IF (total > 0 /\ 100 * correct >= 50 * total) \/ missed <= 3 THEN "HIGH"
  ELSE "CRITICAL"

Abs(x) == IF x < 0 THEN 0 - x ELSE x

\* C13: for every QuizResult with t questions and c correct answers the score is
\* 100 * c / t to the two decimals the column holds (0 when t = 0, exact whenever
\* 100 * c / t has two decimals), passed is true exactly when 100 * c / t >= 70, and
\* risk_level is the first matching rule of: score >= 90 and missed = 0 -> LOW;
\* score >= 70 and missed <= 1 -> MEDIUM; score >= 50 or missed <= 3 -> HIGH;
\* otherwise CRITICAL, so CRITICAL exactly when score < 50 and missed > 3.
QuizResultMatchesRules ==
  \A i \in 1..Len(results) :
     LET t == results[i].total_questions
         c == results[i].correct_answers
         missed == results[i].phishing_emails_missed
     IN  /\ t = 0 => results[i].score_stored = 0 /\ results[i].score = ZeroLimbs
         /\ t > 0 => Abs(results[i].score_stored * t - 100 * 100 * c) < t
         /\ QuizResult_passed(results[i]) = (t > 0 /\ 100 * c >= 70 * t)
         /\ QuizResult_passed_loaded(results[i]) = (t > 0 /\ 100 * c >= 70 * t)
         /\ results[i].risk_level = FirstRule(c, t, missed)
         /\ (results[i].risk_level = "CRITICAL") = ((t = 0 \/ 100 * c < 50 * t) /\ missed > 3)

\* 7 of 10 correct with at most one phishing email missed: 70.00, passed, MEDIUM
SevenOfTenIsMedium ==
  \E i \in 1..Len(results) :
     /\ results[i].total_questions = 10 /\ results[i].correct_answers = 7
     /\ results[i].phishing_emails_missed = 1
     /\ results[i].score_stored = 7000
     /\ QuizResult_passed(results[i])
     /\ results[i].risk_level = "MEDIUM"

\* what C14 says of a submission that closed training i of employee e: before and
\* after are the RiskScore rows, tr the training record after the submission
OutcomeApplied(before, after, tr) ==
  /\ after.trainings_completed = before.trainings_completed + 1
  /\ IF tr.status = "PASSED"
     THEN /\ after.trainings_passed = before.trainings_passed + 1
          /\ after.score =
               Max2(0, before.score - ModuleConfig(tr.training_module).score_reduction_on_pass)
          /\ tr.risk_score_before = before.score
          /\ tr.risk_score_after = after.score
     ELSE /\ after.trainings_passed = before.trainings_passed
          /\ after.score = before.score

\* C14 (as stated): every training quiz submission by an employee raises
\* trainings_completed of the employee's RiskScore by exactly 1; a passed one also
\* raises trainings_passed by 1, lowers the score to max(0, score before -
\* score_reduction_on_pass) and stores the score before and after on the training
\* record; a failed one leaves the score unchanged.
TrainingOutcomeApplied ==
  [][last'.op = "submit_training_quiz" =>
       /\ last'.e \in DOMAIN rs
       /\ last'.e \in DOMAIN rs'
       /\ OutcomeApplied(rs[last'.e], rs'[last'.e], trainings'[last'.i])]_vars

\* the same for the submissions of an employee who has a RiskScore row
TrainingOutcomeAppliedToRow ==
  [][(last'.op = "submit_training_quiz" /\ last'.e \in DOMAIN rs) =>
       /\ last'.e \in DOMAIN rs'
       /\ OutcomeApplied(rs[last'.e], rs'[last'.e], trainings'[last'.i])]_vars

\* the active mandatory modules that are global or belong to the employees' company
MandatoryModules ==
  {ModuleOrder[k] : k \in {j \in 1..Len(ModuleOrder) :
      /\ ModuleConfig(ModuleOrder[j]).is_active
      /\ ModuleConfig(ModuleOrder[j]).is_mandatory
      /\ ModuleConfig(ModuleOrder[j]).company \in {"NONE", EmployeeCompany}}}

\* the score of employee e in the rows r, if there is a row, is above 70
Above70(r, e) == e \in DOMAIN r /\ r[e].score > 70

effective_sent_count_plain(db, c) == db.campaigns[c].total_sent

\* SimulationCampaign._effective_sent_count
effective_sent_count(db, c) ==
  IF db.campaigns[c].total_sent > 0 THEN db.campaigns[c].total_sent
  ELSE IF CountSent(db, c) > 0 THEN CountSent(db, c)
  ELSE Cardinality(CampaignSims(db, c))

\* (numerator / sent) * 100 as a float; 0 when sent is 0
rate_of(numerator, sent) ==
  IF sent = 0 THEN ZeroLimbs ELSE MulLimbs(DivLimbs(numerator, sent), 100)

open_rate(db, c) == rate_of(db.campaigns[c].total_opened, effective_sent_count(db, c))

click_rate(db, c) == rate_of(db.campaigns[c].total_clicked, effective_sent_count(db, c))

report_rate(db, c) == rate_of(db.campaigns[c].total_reported, effective_sent_count(db, c))

compromise_rate(db, c) ==
  rate_of(Max2(db.campaigns[c].total_clicked, db.campaigns[c].total_credentials_entered),
          effective_sent_count(db, c))

\* the denominator C16 names
Denominator(c) ==
  IF campaigns[c].total_sent > 0 THEN campaigns[c].total_sent
  ELSE IF {s \in DOMAIN sims : s[1] = c /\ sims[s].status \notin {"PENDING", "FAILED"}} # {}
  THEN Cardinality({s \in DOMAIN sims : s[1] = c /\ sims[s].status \notin {"PENDING", "FAILED"}})
  ELSE Cardinality({s \in DOMAIN sims : s[1] = c})

\* the float r is 100 * n / d to within 2^-32, and 0 when d = 0
IsRate(r, n, d) ==
  IF d = 0 THEN r = ZeroLimbs
  ELSE IF GeLimbs(MulExact(r, d), IntLimbs(100 * n))
  THEN GeLimbs(UnitAt(32), SubLimbs(MulExact(r, d), IntLimbs(100 * n)))
  ELSE GeLimbs(UnitAt(32), SubLimbs(IntLimbs(100 * n), MulExact(r, d)))

\* C16: in every campaign state open_rate, click_rate, report_rate and
\* compromise_rate are 100 * numerator / d (numerators total_opened, total_clicked,
\* total_reported and max(total_clicked, total_credentials_entered)), where d is
\* total_sent if that is positive, else the number of simulations that are neither
\* PENDING nor FAILED if that is positive, else the number of simulations; each
\* rate is 0 when d = 0.
RatesMatchFormula ==
  \A c \in Campaigns :
     /\ IsRate(open_rate(DB, c), campaigns[c].total_opened, Denominator(c))
     /\ IsRate(click_rate(DB, c), campaigns[c].total_clicked, Denominator(c))
     /\ IsRate(report_rate(DB, c), campaigns[c].total_reported, Denominator(c))
     /\ IsRate(compromise_rate(DB, c),
               Max2(campaigns[c].total_clicked, campaigns[c].total_credentials_entered),
               Denominator(c))

\* the only simulation of a campaign failed to send and was opened all the same:
\* total_sent is 0, no simulation counts as sent, and open_rate is 100 over the
\* number of simulations
RateOverAllSimulations ==
  \E c \in Campaigns :
     /\ campaigns[c].total_sent = 0
     /\ CountSent(DB, c) = 0
     /\ campaigns[c].total_opened = 1
     /\ Cardinality(CampaignSims(DB, c)) = 1
     /\ open_rate(DB, c) = IntLimbs(100)

(***************************************************************************)
(* The responses of the public pixel and link endpoints, for the tokens of *)
(* the simulation of c1 and for a token that matches no simulation.        *)
(***************************************************************************)
MaxTimeResponses == 5

InitResponses == InitRows /\ horizon = MaxTimeResponses

NextResponses ==
  \/ \E b \in BOOLEAN : Send("c1", b, {})
  \/ Complete("c1")
  \/ TrackPixel(<<"c1", "e1">>)
  \/ TrackLinkClick(<<"c1", "e1">>)
  \/ TrackPixelUnknown(<<"c2", "e1">>)
  \/ TrackLinkClickUnknown(<<"c2", "e1">>)

SpecResponses == InitResponses /\ [][NextResponses]_vars

\* C17 (as stated): every pixel request is answered with the response given for an
\* unknown token (the pixel, image/png, no further header) and every link request
\* with the redirect given for an unknown token, whether the token exists or not
\* and whether the campaign is trackable or not.
ResponseHidesToken ==
  /\ last.op = "track_pixel" => last.resp = PixelResponse({})
  /\ last.op = "track_link_click" => last.resp = Redirect("/simulation-error/")

(***************************************************************************)
(* Credential submissions                                                  *)
(***************************************************************************)
MaxTimeCredentials == 5

InitCredentials == InitRows /\ horizon = MaxTimeCredentials

NextCredentials ==
  \/ \E c \in Campaigns : Send(c, TRUE, {})
  \/ \E s \in Sims : LandingPageView(s)
  \/ \E s \in Sims : \E u, p \in Submitted : CredentialsSubmitted(s, u, p)

SpecCredentials == InitCredentials /\ [][NextCredentials]_vars

\* the database after credentials_submitted_view has logged the submission of
\* username and password for simulation s at time t
credentials_stored(db, s, username, password, t) ==
  CreateTrackingEvent(db, db.campaigns[SimCampaign(s)], s, "CREDENTIALS_ENTERED",
                      credentials_event_data(username, password), t).db

SameEmptiness(u, p, u2, p2) == (u = "" \/ u = "None") = (u2 = "" \/ u2 = "None")
                               /\ (p = "" \/ p = "None") = (p2 = "" \/ p2 = "None")

\* C18: a credential submission that is logged leaves the stored state that any
\* other submission with the same fields non-empty would have left from the same
\* state, and the event_data of the new CREDENTIALS_ENTERED event holds only
\* boolean values.
CredentialsNeverStored ==
  [][(last'.op = "credentials_submitted" /\ last'.created) =>
       /\ \E u, p \in Submitted :
            DB' = credentials_stored(DB, <<last'.c, last'.e>>, u, p, now)
       /\ \A u, p, u2, p2 \in Submitted :
            (/\ DB' = credentials_stored(DB, <<last'.c, last'.e>>, u, p, now)
             /\ SameEmptiness(u, p, u2, p2))
            => DB' = credentials_stored(DB, <<last'.c, last'.e>>, u2, p2, now)
       /\ events'[Len(events')].event_type = "CREDENTIALS_ENTERED"
       /\ \A k \in DOMAIN events'[Len(events')].event_data :
            events'[Len(events')].event_data[k] \in BOOLEAN]_vars

\* a submission with a username and an empty password has been logged
UsernameOnlyLogged ==
  /\ last.op = "credentials_submitted"
  /\ last.created
  /\ events[Len(events)].event_data =
       [username_field_filled |-> TRUE, password_field_filled |-> FALSE]

(***************************************************************************)
(* Duplicate events and the score                                          *)
(***************************************************************************)
\* the step logs a new event of a relevant type the simulation already has
IsDuplicateEvent(l) ==
  /\ l.created
  /\ l.dup
  /\ l.op \in {"track_pixel", "track_link_click", "report_phishing", "credentials_submitted"}

\* C19 (as stated): an event of a type already recorded for the same simulation
\* leaves the event counters, the score and the risk_level of every RiskScore
\* unchanged, also after a passed training or a manual adjustment has changed
\* the score.
DuplicateKeepsScore ==
  [][IsDuplicateEvent(last') =>
       /\ DOMAIN rs' = DOMAIN rs
       /\ \A e \in DOMAIN rs :
            /\ EventCounters(rs'[e]) = EventCounters(rs[e])
            /\ rs'[e].score = rs[e].score
            /\ rs'[e].risk_level = rs[e].risk_level]_vars

(***************************************************************************)
(* Submit requests of the two quizzes, one after the other and interleaved *)
(***************************************************************************)
MaxTimeSubmit == 3

InitSubmit == InitRows /\ horizon = MaxTimeSubmit

NextSubmit ==
  \/ \E q \in Quizzes : \E out \in QuizOutcomes : SubmitQuiz(q, out)
  \/ \E q \in Quizzes : SubmitCompleted(q)
  \/ \E r \in Requests : \E q \in Quizzes : SubmitBegin(r, q)
  \/ \E r \in Requests : \E q \in Quizzes : \E out \in QuizOutcomes : SubmitFinish(r, q, out)

SpecSubmit == InitSubmit /\ [][NextSubmit]_vars

\* the QuizResult rows of quiz q
ResultsOf(q) == {i \in 1..Len(results) : results[i].quiz = q}

\* the quiz counters of a RiskScore row
QuizCounters(row) ==
  <<row.total_quizzes_taken, row.total_quiz_questions, row.correct_quiz_answers,
    row.phishing_emails_missed>>

\* the quiz counters that the results of the quizzes in S add up to
RECURSIVE QuizTotals(_)
QuizTotals(S) ==
  IF S = {} THEN <<0, 0, 0, 0>>
  ELSE LET i == CHOOSE j \in S : TRUE
           rest == QuizTotals(S \ {i})
       IN <<rest[1] + 1, rest[2] + results[i].total_questions,
            rest[3] + results[i].correct_answers,
            rest[4] + results[i].phishing_emails_missed>>

\* C20: a submit request for a COMPLETED quiz, and one whose quiz was completed by
\* another request while it was in flight, is refused and leaves every row as it
\* was; every quiz has at most one QuizResult, and the quiz counters of every
\* RiskScore are the sums over the results of the employee, each counted once.
SubmitAppliedOnce ==
  /\ [](/\ \A q \in Quizzes : Cardinality(ResultsOf(q)) <= 1
        /\ \A q \in Quizzes : (quizzes[q] = "COMPLETED") = (ResultsOf(q) # {})
        /\ \A e \in DOMAIN rs :
             QuizCounters(rs[e]) =
               QuizTotals({i \in 1..Len(results) : results[i].employee = e}))
  /\ [][(/\ last'.op \in {"submit_quiz", "submit_quiz_completed", "submit_quiz_conflict"}
         /\ quizzes[last'.q] = "COMPLETED")
        => /\ last'.op # "submit_quiz"
           /\ DB' = DB]_vars

\* a request that passed the status check is refused after another request has
\* completed the same quiz
SecondSubmitRefused ==
  /\ last.op = "submit_quiz_conflict"
  /\ last.q = "q1"
  /\ Cardinality(ResultsOf("q1")) = 1
  /\ rs["e1"].total_quizzes_taken = 1

(***************************************************************************)
(* RiskScoreHistory rows against the rows they describe                    *)
(***************************************************************************)
\* the score and the risk level employee e holds in rows r; a row that does not
\* exist yet is described by the defaults get_or_create_risk_score creates it with
HeldScore(r, e) == IF e \in DOMAIN r THEN r[e].score ELSE 50
HeldLevel(r, e) == IF e \in DOMAIN r THEN r[e].risk_level ELSE "MEDIUM"

\* C21 (as stated): every RiskScoreHistory row a step writes holds the score and
\* the risk level of its employee before the step as previous_score and
\* previous_risk_level, those after the step as new_score and new_risk_level, and
\* score_change = new_score - previous_score.
HistoryRecordsBothSides ==
  [][\A i \in (Len(history) + 1)..Len(history') :
       /\ history'[i].previous_score = HeldScore(rs, history'[i].employee)
       /\ history'[i].previous_risk_level = HeldLevel(rs, history'[i].employee)
       /\ history'[i].new_score = HeldScore(rs', history'[i].employee)
       /\ history'[i].new_risk_level = HeldLevel(rs', history'[i].employee)
       /\ history'[i].score_change = history'[i].new_score - history'[i].previous_score]_vars

(***************************************************************************)
(* The campaign's promotion to IN_PROGRESS and its sent_at                 *)
(***************************************************************************)
MaxTimePromotion == 5

InitPromotion == InitRows /\ horizon = MaxTimePromotion

NextPromotion ==
  \/ GeneratePackage("c2")
  \/ MarkSent("c2")
  \/ \E b \in BOOLEAN : Send("c2", b, {})
  \/ \E e \in Targets("c2") : TrackPixel(<<"c2", e>>)
  \/ \E e \in Targets("c2") : ReportPhishing(<<"c2", e>>)

SpecPromotion == InitPromotion /\ [][NextPromotion]_vars

\* C22 (as stated): an event that leaves total_sent > 0 on a DRAFT or SCHEDULED
\* campaign leaves it IN_PROGRESS, and once sent_at of a campaign is set, no
\* tracking event, package generation or bulk mark-sent changes it.
SentAtWrittenOnce ==
  [][\A c \in Campaigns :
       /\ (/\ last'.created
           /\ last'.c = c
           /\ campaigns[c].status \in {"DRAFT", "SCHEDULED"}
           /\ campaigns'[c].total_sent > 0)
          => campaigns'[c].status = "IN_PROGRESS"
       /\ (/\ campaigns[c].sent_at # 0
           /\ last'.created \/ last'.op \in {"generate_package", "mark_sent"})
          => campaigns'[c].sent_at = campaigns[c].sent_at]_vars

(***************************************************************************)
(* The simulation's promotion from PENDING to SENT                         *)
(***************************************************************************)
\* EmailSimulation.STATUS_CHOICES and TrackingEvent.EVENT_TYPE_CHOICES
SimStatuses == {"PENDING", "SENT", "DELIVERED", "BOUNCED", "FAILED"}
EventTypes == {"EMAIL_SENT", "EMAIL_DELIVERED", "EMAIL_BOUNCED", "EMAIL_OPENED",
               "LINK_CLICKED", "CREDENTIALS_ENTERED", "EMAIL_REPORTED",
               "LANDING_PAGE_VIEWED"}

\* the status and sent_at an event of event_type created at t must leave on a
\* simulation that had status and sent_at before
PromotedTo(status, sent_at, event_type, t) ==
  IF status = "PENDING" /\ event_type \in {"EMAIL_OPENED", "LINK_CLICKED",
                                           "CREDENTIALS_ENTERED", "EMAIL_REPORTED"}
  THEN <<"SENT", IF sent_at = 0 THEN t ELSE sent_at>>
  ELSE <<status, sent_at>>

\* C23: a request that logs an event leaves the status and sent_at of its
\* simulation as the rule demands (PENDING becomes SENT on an opened, clicked,
\* credentials or reported event, with sent_at backfilled if empty; nothing
\* changes otherwise), and the rule is what the promotion computes for every
\* status, event type and sent_at.
PendingPromotedBySignal ==
  /\ [][last'.created =>
         <<sims'[<<last'.c, last'.e>>].status, sims'[<<last'.c, last'.e>>].sent_at>> =
           PromotedTo(sims[<<last'.c, last'.e>>].status, sims[<<last'.c, last'.e>>].sent_at,
                      events'[Len(events')].event_type, events'[Len(events')].created_at)]_vars
  /\ [](\A status \in SimStatuses : \A event_type \in EventTypes : \A sent_at \in 0..1 :
          LET after == promote_simulation(
                         [NewSimulation EXCEPT !.status = status, !.sent_at = sent_at],
                         [event_type |-> event_type, created_at |-> now])
          IN <<after.status, after.sent_at>> = PromotedTo(status, sent_at, event_type, now))

\* an opened event has promoted a simulation that was never sent by the platform,
\* and a landing-page view has left another one PENDING
PromotedAndNotPromoted ==
  /\ \E s \in DOMAIN sims :
       /\ sims[s].status = "SENT"
       /\ \E i \in 1..Len(events) :
            /\ events[i].email_simulation = s
            /\ events[i].event_type = "EMAIL_OPENED"
            /\ sims[s].sent_at = events[i].created_at
       /\ \A i \in 1..Len(events) :
            events[i].email_simulation = s => events[i].event_type # "EMAIL_SENT"
  /\ \E s \in DOMAIN sims :
       /\ sims[s].status = "PENDING"
       /\ \E i \in 1..Len(events) :
            /\ events[i].email_simulation = s
            /\ events[i].event_type = "LANDING_PAGE_VIEWED"

(***************************************************************************)
(* Attack vectors and the training assigned for them                       *)
(***************************************************************************)
\* SimulationTemplate.ATTACK_VECTOR_CHOICES
AttackVectors == {"LINK_MANIPULATION", "CREDENTIAL_HARVESTING", "ATTACHMENT_MALWARE",
                  "URGENCY_SCAM", "AUTHORITY_IMPERSONATION", "PRIZE_LOTTERY",
                  "BUSINESS_EMAIL_COMPROMISE"}

\* the active modules of a category the employees can be given
VisibleModules(category) ==
  {m \in {ModuleOrder[k] : k \in 1..Len(ModuleOrder)} :
     /\ ModuleConfig(m).is_active
     /\ ModuleConfig(m).category = category
     /\ ModuleConfig(m).company \in {"NONE", EmployeeCompany}}

\* C24 (as stated): every attack vector a template can have is mapped to a
\* training category, and after a LINK_CLICKED or CREDENTIALS_ENTERED event the
\* employee has an open assignment of a visible active module of the category of
\* the campaign's vector, if there is such a module.
VectorAssignsModule ==
  /\ [](\A v \in AttackVectors : vector_to_category(v) # "NONE")
  /\ [][(/\ last'.created
         /\ events'[Len(events')].event_type \in {"LINK_CLICKED", "CREDENTIALS_ENTERED"}
         /\ VisibleModules(vector_to_category(CampaignConfig(last'.c).attack_vector)) # {})
        => \E i \in 1..Len(trainings') :
             /\ trainings'[i].employee = last'.e
             /\ trainings'[i].status \in OpenStatuses
             /\ trainings'[i].training_module \in
                  VisibleModules(vector_to_category(CampaignConfig(last'.c).attack_vector))]_vars

(***************************************************************************)
(* Training submissions and the remediation trigger                        *)
(***************************************************************************)
\* C25 (as stated): the submission of a training quiz, passed or failed, creates
\* no new assignment of the module of the training it closes for its employee.
SubmissionAssignsNothing ==
  [][last'.op = "submit_training_quiz" =>
       \A i \in (Len(trainings) + 1)..Len(trainings') :
          ~(/\ trainings'[i].employee = trainings[last'.i].employee
            /\ trainings'[i].training_module = trainings[last'.i].training_module)]_vars

(***************************************************************************)
(* The remediation trigger, call by call: a manual adjustment and a quiz   *)
(* submission whose RiskScore saves, receiver calls and assignment passes  *)
(* are single steps, with an exception possible where a row is created.    *)
(***************************************************************************)
MaxTimeTrigger == 4

\* a frame of the call stack: the function, the employee of the RiskScore instance,
\* the position of the module loop, the modules the pass has created assignments
\* for, and what the calling view keeps for its last statements
Frame(fn, e, old_score, old_level, q) ==
  [fn |-> fn, e |-> e, k |-> 1, created |-> <<>>,
   old_score |-> old_score, old_level |-> old_level, q |-> q]

Push(tr, f) == [tr EXCEPT !.stack = Append(@, f)]
Top(tr) == tr.stack[Len(tr.stack)]
Pop(tr) == [tr EXCEPT !.stack = SubSeq(@, 1, Len(@) - 1)]

\* a variant of post_save_RiskScore that does not look at _from_signal
post_save_RiskScore_unguarded(tr, e, score, requires) ==
  IF score > 70 /\ requires
  THEN Push(Push([tr EXCEPT !.flag = TRUE],
                 Frame("check_remediation_on_score_change", e, 0, "", "")),
            Frame("auto_assign_remediation", e, 0, "", ""))
  ELSE tr

\* post_save of a RiskScore instance with score and requires_remediation: the
\* receiver check_remediation_on_score_change up to its call of
\* auto_assign_remediation
post_save_RiskScore(tr, e, score, requires) ==
  IF tr.flag THEN tr
  ELSE IF score > 70 /\ requires
  THEN Push(Push([tr EXCEPT !.flag = TRUE],
                 Frame("check_remediation_on_score_change", e, 0, "", "")),
            Frame("auto_assign_remediation", e, 0, "", ""))
  ELSE tr

\* the rows are written as in d
Persist(d) ==
  /\ campaigns' = d.campaigns
  /\ sims' = d.sims
  /\ events' = d.events
  /\ rs' = d.rs
  /\ history' = d.history
  /\ trainings' = d.trainings
  /\ modstats' = d.modstats
  /\ quizzes' = d.quizzes
  /\ results' = d.results
  /\ received' = d.received

\* a step inside the request that is followed call by call
Inside(name, e) ==
  /\ last' = Op(name, "", e, 0)
  /\ UNCHANGED <<now, horizon, submitting, running>>

\* RiskScoreViewSet.partial_update up to the return of risk_score.save(): the row
\* is written and the post_save receiver is entered
AdjustBegin(e, new_score) ==
  /\ trigger.stack = <<>>
  /\ now < horizon
  /\ Len(trainings) < MaxTrainings
  /\ e \in DOMAIN rs
  /\ new_score \in 0..100
  /\ Persist([DB EXCEPT !.rs[e] = [@ EXCEPT !.score = new_score,
                                            !.risk_level = calculate_risk_level(new_score),
                                            !.requires_remediation = new_score > 70]])
  /\ trigger' = post_save_RiskScore(
                  Push([TriggerIdle EXCEPT !.before = DB, !.expect =
                          create_risk_history(
                            RiskScoreSave(DB, e, [rs[e] EXCEPT !.score = new_score], now),
                            e, "MANUAL_ADJUSTMENT", rs[e].score, new_score,
                            rs[e].risk_level, calculate_risk_level(new_score),
                            "ManualAdjustment", 0, now)],
                       Frame("partial_update", e, rs[e].score, rs[e].risk_level, "")),
                  e, new_score, new_score > 70)
  /\ Inside("manual_adjust_begin", e)

\* the rows after QuizResult.objects.create has inserted res and its receiver has
\* written its history row
quiz_result_front(db, q, res, t) ==
  quiz_front(get_or_create_risk_score([db EXCEPT !.results = Append(@, res)], res.employee),
             q, res, t)

\* QuizViewSet.submit up to the call auto_assign_remediation(risk_score) that ends
\* update_risk_score_from_quiz; the call returns at once for a score <= 70
QuizBegin(q, out) ==
  /\ trigger.stack = <<>>
  /\ now < horizon
  /\ Len(trainings) < MaxTrainings
  /\ quizzes[q] # "COMPLETED"
  /\ \E stored \in StoredScores(quiz_score(out[2], out[1])) :
       LET res == QuizResultRow(q, out, quiz_score(out[2], out[1]), stored)
           d == quiz_result_front(DB, q, res, now)
           caller == Push([TriggerIdle EXCEPT !.expect = submit_quiz_result(DB, q, res, now)],
                          Frame("submit", res.employee, 0, "", q))
       IN  /\ Persist(d)
           /\ trigger' = IF d.rs[res.employee].score <= 70 THEN caller
                         ELSE Push(caller, Frame("auto_assign_remediation", res.employee, 0, "", ""))
  /\ Inside("submit_quiz_begin", QuizEmployee(q))

\* the module the pass is at needs an assignment
PassCreates(f) ==
  /\ ModuleConfig(ModuleOrder[f.k]).is_active
  /\ ModuleConfig(ModuleOrder[f.k]).is_mandatory
  /\ ModuleConfig(ModuleOrder[f.k]).company \in {"NONE", EmployeeCompany}
  /\ ~HasOpenAssignment(DB, f.e, ModuleOrder[f.k])

\* the frame after one pass of the module loop
Advance(f, created) ==
  [f EXCEPT !.k = @ + 1, !.created = IF created THEN Append(@, ModuleOrder[f.k]) ELSE @]

\* one pass of the loop of auto_assign_remediation: the exists check and, if there
\* is no open assignment, the new row, the module statistics and
\* risk_score.save(update_fields=['trainings_assigned']) with its post_save
TriggerStep ==
  /\ trigger.stack # <<>>
  /\ ~trigger.raised
  /\ Top(trigger).fn = "auto_assign_remediation"
  /\ Top(trigger).k <= Len(ModuleOrder)
  /\ IF PassCreates(Top(trigger))
     THEN /\ Persist([BumpModule(
                        [DB EXCEPT !.trainings = Append(@,
                           NewTraining(Top(trigger).e, ModuleOrder[Top(trigger).k],
                                       "AUTO_HIGH_RISK", "RiskScore", Top(trigger).e, now))],
                        ModuleOrder[Top(trigger).k], "times_assigned")
                      EXCEPT !.rs[Top(trigger).e].trainings_assigned = @ + 1])
          /\ trigger' = post_save_RiskScore(
                          Push(Pop(trigger), Advance(Top(trigger), TRUE)),
                          Top(trigger).e, rs[Top(trigger).e].score,
                          rs[Top(trigger).e].score > 70)
     ELSE /\ Persist(DB)
          /\ trigger' = Push(Pop(trigger), Advance(Top(trigger), FALSE))
  /\ Inside("assign_pass", Top(trigger).e)

\* RemediationTraining.objects.create raises
TriggerRaise ==
  /\ trigger.stack # <<>>
  /\ ~trigger.raised
  /\ Top(trigger).fn = "auto_assign_remediation"
  /\ Top(trigger).k <= Len(ModuleOrder)
  /\ PassCreates(Top(trigger))
  /\ Persist(DB)
  /\ trigger' = [trigger EXCEPT !.raised = TRUE]
  /\ Inside("assign_raise", Top(trigger).e)

\* auto_assign_remediation returns at the end of its loop, or is left by the
\* exception
TriggerReturn ==
  /\ trigger.stack # <<>>
  /\ Top(trigger).fn = "auto_assign_remediation"
  /\ trigger.raised \/ Top(trigger).k > Len(ModuleOrder)
  /\ Persist(DB)
  /\ trigger' = Pop(trigger)
  /\ Inside("assign_return", Top(trigger).e)

\* the finally clause of check_remediation_on_score_change: del instance._from_signal
TriggerFinally ==
  /\ trigger.stack # <<>>
  /\ Top(trigger).fn = "check_remediation_on_score_change"
  /\ Persist(DB)
  /\ trigger' = [Pop(trigger) EXCEPT !.flag = FALSE]
  /\ Inside("receiver_finally", Top(trigger).e)

\* the end of the request: partial_update writes its history row, or the
\* exception leaves it and transaction.atomic undoes what the request wrote;
\* update_risk_score_from_quiz catches the exception and submit saves the quiz
\* as COMPLETED
CallerReturn ==
  /\ trigger.stack # <<>>
  /\ Top(trigger).fn \in {"partial_update", "submit"}
  /\ Persist(IF Top(trigger).fn = "submit"
             THEN [DB EXCEPT !.quizzes[Top(trigger).q] = "COMPLETED"]
             ELSE IF trigger.raised THEN trigger.before
             ELSE create_risk_history(DB, Top(trigger).e, "MANUAL_ADJUSTMENT",
                    Top(trigger).old_score, rs[Top(trigger).e].score,
                    Top(trigger).old_level, rs[Top(trigger).e].risk_level,
                    "ManualAdjustment", 0, now))
  /\ trigger' = [TriggerIdle EXCEPT !.raised = trigger.raised, !.expect = trigger.expect]
  /\ now' = now + 1
  /\ last' = Op(IF Top(trigger).fn = "submit" THEN "submit_quiz" ELSE "manual_adjust",
                "", Top(trigger).e, 0)
  /\ UNCHANGED <<horizon, submitting, running>>

TriggerCalls == TriggerStep \/ TriggerRaise \/ TriggerReturn \/ TriggerFinally \/ CallerReturn

InitTrigger == InitRows /\ horizon = MaxTimeTrigger

NextTrigger ==
  \/ \E x \in AdjustScores : AdjustBegin("e1", x)
  \/ \E out \in QuizOutcomes : QuizBegin("q1", out)
  \/ TriggerStep
  \/ TriggerRaise
  \/ TriggerReturn
  \/ TriggerFinally
  \/ CallerReturn
  \/ \E i \in 1..MaxTrainings : ViewContent(i)
  \/ \E i \in 1..MaxTrainings : SubmitTrainingQuiz(i, 3)

\* every call that can run does run
SpecTrigger == InitTrigger /\ [][NextTrigger]_vars /\ WF_vars(TriggerCalls)

\* the frames of function fn on the stack
FramesOf(fn) == {i \in 1..Len(trigger.stack) : trigger.stack[i].fn = fn}

\* C26: a request that has entered the trigger comes to its end; the receiver is
\* never on the stack twice and the stack holds at most two assignment passes;
\* when the request has ended, by return or by exception, _from_signal is removed;
\* no pass creates two assignments for one module, and it creates them for
\* mandatory modules only; a request that ended without an exception leaves the
\* rows that the receiver and the pass, taken as one computation, produce.
TriggerTerminates ==
  /\ (trigger.stack # <<>>) ~> (trigger.stack = <<>>)
  /\ [](/\ Cardinality(FramesOf("check_remediation_on_score_change")) <= 1
        /\ Cardinality(FramesOf("auto_assign_remediation")) <= 2
        /\ trigger.stack = <<>> => ~trigger.flag
        /\ \A i \in 1..Len(trigger.stack) :
             /\ \A a, b \in 1..Len(trigger.stack[i].created) :
                  a # b => trigger.stack[i].created[a] # trigger.stack[i].created[b]
             /\ \A a \in 1..Len(trigger.stack[i].created) :
                  ModuleConfig(trigger.stack[i].created[a]).is_mandatory
        /\ (trigger.stack = <<>> /\ last.op \in {"manual_adjust", "submit_quiz"}
            /\ ~trigger.raised)
           => DB = trigger.expect)

\* a manual adjustment to a score above 70 has ended after an exception in the
\* pass its save started: the flag is removed, nothing was assigned and the
\* score is the one from before the request
RaisedAndReturned ==
  /\ trigger.stack = <<>>
  /\ trigger.raised
  /\ ~trigger.flag
  /\ last.op = "manual_adjust"
  /\ rs["e1"].score <= 70
  /\ \A i \in 1..Len(history) : history[i].event_type # "MANUAL_ADJUSTMENT"
  /\ ~HasOpenAssignment(DB, "e1", "m1")

(***************************************************************************)
(* A receiver left by an exception between its saves and its history row   *)
(***************************************************************************)
MaxTimeAtomic == 4

\* where the exception is raised: by refresh_from_db, recalculate_score or the
\* second save (the counters are saved), or by create_risk_history (counters
\* and score are saved)
FailurePoints == {"after_counters", "after_score"}

\* what is raised: a database error, or any other exception
FailureKinds == {"database", "other"}

\* update_risk_score_from_simulation from the first save of the row to the
\* statement that raises; 'except Exception' logs the error and the receiver
\* returns
simulation_interrupted(d0, e, id, t, point) ==
  IF point = "after_counters"
  THEN RiskScoreSave(count_received(d0, id), e, simulation_counters(d0, id, t), t)
  ELSE recalculate_and_save(
         RiskScoreSave(count_received(d0, id), e, simulation_counters(d0, id, t), t),
         e, t)

\* TrackingEvent.objects.create(...) of a relevant event whose receiver is left
\* by an exception at point; the tracking views open no transaction, so every
\* statement that was executed stays committed and save() goes on to the roll-ups
CreateTrackingEventInterrupted(db, camp, s, event_type, t, point) ==
  roll_up(
    update_simulation_stats(
      simulation_interrupted(
        get_or_create_risk_score(
          [db EXCEPT !.events = Append(@,
             [email_simulation |-> s, event_type |-> event_type,
              event_data |-> NoData, created_at |-> t])],
          SimEmployee(s)),
        SimEmployee(s), Len(db.events) + 1, t, point),
      Len(db.events) + 1),
    camp, Len(db.events) + 1)

\* track_pixel_view or track_link_click_view logging its event while the
\* RiskScore receiver is left by an exception at point
TrackInterrupted(s, event_type, point) ==
  /\ s \in DOMAIN sims
  /\ Trackable(SimCampaign(s))
  /\ \/ event_type = "EMAIL_OPENED" /\ CampaignConfig(SimCampaign(s)).track_email_opens
     \/ event_type = "LINK_CLICKED" /\ CampaignConfig(SimCampaign(s)).track_link_clicks
  /\ Commit(CreateTrackingEventInterrupted(DB, campaigns[SimCampaign(s)], s, event_type,
                                           now, point).db,
            [Op("track_interrupted", SimCampaign(s), SimEmployee(s), 0) EXCEPT
               !.created = TRUE,
               !.dup = OtherEvents(DB, s, 0, {event_type}) # {},
               !.trackable = TRUE])

\* update_risk_score_from_quiz from the first save of the row to the statement
\* that raises
quiz_interrupted(d0, res, t, point) ==
  IF point = "after_counters"
  THEN RiskScoreSave(d0, res.employee,
         [d0.rs[res.employee] EXCEPT
            !.total_quizzes_taken = @ + 1,
            !.total_quiz_questions = @ + res.total_questions,
            !.correct_quiz_answers = @ + res.correct_answers,
            !.phishing_emails_missed = @ + res.phishing_emails_missed,
            !.last_quiz_date = t], t)
  ELSE recalculate_and_save(
         RiskScoreSave(d0, res.employee,
           [d0.rs[res.employee] EXCEPT
              !.total_quizzes_taken = @ + 1,
              !.total_quiz_questions = @ + res.total_questions,
              !.correct_quiz_answers = @ + res.correct_answers,
              !.phishing_emails_missed = @ + res.phishing_emails_missed,
              !.last_quiz_date = t], t),
         res.employee, t)

\* the rows after 'with transaction.atomic()' of QuizViewSet.submit when the
\* receiver of the QuizResult was left by an exception: a database error has
\* marked the transaction for rollback, quiz.save() raises and the block undoes
\* every write; after any other exception the block goes on and commits
submit_interrupted(db, q, res, t, point, kind) ==
  IF kind = "database" THEN db
  ELSE [quiz_interrupted(
          get_or_create_risk_score([db EXCEPT !.results = Append(@, res)], res.employee),
          res, t, point)
        EXCEPT !.quizzes[q] = "COMPLETED"]

\* QuizViewSet.submit while the RiskScore receiver is left by an exception
SubmitInterrupted(q, out, point, kind) ==
  /\ quizzes[q] # "COMPLETED"
  /\ \E stored \in StoredScores(quiz_score(out[2], out[1])) :
       Commit(submit_interrupted(DB, q,
                QuizResultRow(q, out, quiz_score(out[2], out[1]), stored), now, point, kind),
              [Op("submit_interrupted", kind, QuizEmployee(q), 0) EXCEPT !.q = q])

InitAtomic == InitRows /\ horizon = MaxTimeAtomic

NextAtomic ==
  \/ \E c \in Campaigns : Send(c, TRUE, {})
  \/ \E s \in Sims : TrackPixel(s)
  \/ \E s \in Sims : TrackLinkClick(s)
  \/ \E q \in Quizzes : \E out \in QuizOutcomes : SubmitQuiz(q, out)
  \/ \E s \in Sims : \E ev \in {"EMAIL_OPENED", "LINK_CLICKED"} : \E point \in FailurePoints :
       TrackInterrupted(s, ev, point)
  \/ \E q \in Quizzes : \E out \in QuizOutcomes : \E point \in FailurePoints :
       \E kind \in FailureKinds : SubmitInterrupted(q, out, point, kind)

SpecAtomic == InitAtomic /\ [][NextAtomic]_vars

\* requests that process a quiz result or a simulation event
ProcessingOps ==
  {"track_pixel", "track_link_click", "submit_quiz", "track_interrupted", "submit_interrupted"}

\* the step wrote a history row of employee e that ends at the score of e
HistoryRowWritten(e) ==
  \E i \in (Len(history) + 1)..Len(history') :
     history'[i].employee = e /\ history'[i].new_score = rs'[e].score

\* C27 (as stated): whenever the processing of a quiz result or of a simulation
\* event, completed or left by an exception, has changed the score or a counter
\* of a RiskScore, the same step has written the history row of that employee
\* that describes the change; a change without its row does not remain.
ChangeNeverWithoutHistory ==
  [][\A e \in Employees :
       (last'.op \in ProcessingOps /\ RiskScoreChanged(rs, rs', e)) => HistoryRowWritten(e)]_vars

\* the same property on the requests whose receiver ran to its end, and on a
\* quiz submission whose transaction was marked for rollback
CompletedChangeHasHistory ==
  [][\A e \in Employees :
       (/\ last'.op \in ProcessingOps
        /\ last'.op = "submit_interrupted" => last'.c = "database"
        /\ last'.op # "track_interrupted"
        /\ RiskScoreChanged(rs, rs', e)) => HistoryRowWritten(e)]_vars

(***************************************************************************)
(* Tracking requests in flight at the same time.  The tracking views open  *)
(* no transaction: every statement of TrackingEvent.objects.create and of  *)
(* update_risk_score_from_simulation is committed on its own, and the      *)
(* statements of two requests interleave.                                  *)
(***************************************************************************)
MaxTimeHandlers == 3

\* one statement of the request of handler h on simulation s: the rows become d
\* and the handler goes on as r
HandlerStep(h, s, d, r) ==
  /\ trigger.stack = <<>>
  /\ Persist(d)
  /\ running' = [running EXCEPT ![h] = r]
  /\ last' = Op("track_step", "", SimEmployee(s), 0)
  /\ UNCHANGED <<now, horizon, submitting, trigger>>

\* track_pixel_view / track_link_click_view up to the INSERT of
\* TrackingEvent.objects.create; the view holds the campaign object it loaded
EventArrives(h, s, event_type) ==
  /\ running[h].pc = "idle"
  /\ now < horizon
  /\ Len(events) < MaxEvents
  /\ s \in DOMAIN sims
  /\ Trackable(SimCampaign(s))
  /\ \/ event_type = "EMAIL_OPENED" /\ CampaignConfig(SimCampaign(s)).track_email_opens
     \/ event_type = "LINK_CLICKED" /\ CampaignConfig(SimCampaign(s)).track_link_clicks
  /\ HandlerStep(h, s,
       [DB EXCEPT !.events = Append(@,
          [email_simulation |-> s, event_type |-> event_type,
           event_data |-> NoData, created_at |-> now])],
       [HandlerIdle EXCEPT !.pc = "load", !.s = s, !.event_type = event_type,
                           !.id = Len(events) + 1, !.camp = campaigns[SimCampaign(s)]])

\* risk_score, rs_created = get_or_create_risk_score(employee); old_score, old_level
HandlerLoad(h) ==
  /\ running[h].pc = "load"
  /\ HandlerStep(h, running[h].s,
       get_or_create_risk_score(DB, SimEmployee(running[h].s)),
       [running[h] EXCEPT
          !.pc = "counted",
          !.inst = get_or_create_risk_score(DB, SimEmployee(running[h].s)).rs[SimEmployee(running[h].s)],
          !.old_score = get_or_create_risk_score(DB, SimEmployee(running[h].s)).rs[SimEmployee(running[h].s)].score,
          !.old_level = get_or_create_risk_score(DB, SimEmployee(running[h].s)).rs[SimEmployee(running[h].s)].risk_level])

\* sim_already_counted = has_prior_relevant_events or was_bulk_marked_sent
HandlerCheckCounted(h) ==
  /\ running[h].pc = "counted"
  /\ HandlerStep(h, running[h].s, DB,
       [running[h] EXCEPT !.pc = "recorded",
                          !.counted = sim_already_counted(DB, running[h].id)])

\* already_has_event(instance.event_type)
HandlerCheckRecorded(h) ==
  /\ running[h].pc = "recorded"
  /\ HandlerStep(h, running[h].s, DB,
       [running[h] EXCEPT !.pc = "save",
                          !.has_event = already_has_event(DB, running[h].id)])

\* the row written by the first risk_score.save(): the fields assigned an F()
\* expression are computed from the row in the database, every other field is
\* written with the value the instance holds
counters_row(row, inst, event_type, counted, has_event, t) ==
  [inst EXCEPT
     !.total_simulations_received =
        IF counted THEN @ ELSE row.total_simulations_received + 1,
     ![CounterOf(event_type)] =
        IF has_event THEN @ ELSE row[CounterOf(event_type)] + 1,
     !.last_simulation_date = t]

\* risk_score.save() with the F() increments, and its post_save receiver
HandlerSaveCounters(h) ==
  /\ running[h].pc = "save"
  /\ Len(RiskScoreSave(DB, SimEmployee(running[h].s),
           counters_row(rs[SimEmployee(running[h].s)], running[h].inst,
                        running[h].event_type, running[h].counted, running[h].has_event, now),
           now).trainings) <= MaxTrainings
  /\ HandlerStep(h, running[h].s,
       RiskScoreSave(
         IF running[h].counted THEN DB
         ELSE [DB EXCEPT !.received[running[h].s] = @ + 1],
         SimEmployee(running[h].s),
         counters_row(rs[SimEmployee(running[h].s)], running[h].inst,
                      running[h].event_type, running[h].counted, running[h].has_event, now),
         now),
       [running[h] EXCEPT !.pc = "refresh"])

\* risk_score.refresh_from_db()
HandlerRefresh(h) ==
  /\ running[h].pc = "refresh"
  /\ HandlerStep(h, running[h].s, DB,
       [running[h] EXCEPT !.pc = "score", !.inst = rs[SimEmployee(running[h].s)]])

\* the instance after recalculate_score() and the field updates of RiskScore.save
saved_instance(inst) ==
  [recalculate_score(inst) EXCEPT
     !.risk_level = calculate_risk_level(recalculate_score(inst).score),
     !.requires_remediation = recalculate_score(inst).score > 70]

\* risk_score.recalculate_score(); risk_score.save(): the whole row is written
\* from the instance; the post_save receiver starts a remediation pass if the
\* score is above 70
HandlerSaveScore(h) ==
  /\ running[h].pc = "score"
  /\ HandlerStep(h, running[h].s,
       [DB EXCEPT !.rs[SimEmployee(running[h].s)] = saved_instance(running[h].inst)],
       [running[h] EXCEPT
          !.inst = saved_instance(running[h].inst),
          !.pc = IF saved_instance(running[h].inst).score > 70 THEN "exists" ELSE "history",
          !.k = 1])

\* module m is in the queryset mandatory_modules of auto_assign_remediation
PassSelects(m) ==
  /\ ModuleConfig(m).is_active
  /\ ModuleConfig(m).is_mandatory
  /\ ModuleConfig(m).company \in {"NONE", EmployeeCompany}

\* the modules the loop of auto_assign_remediation visits, in order
PassModules == SelectSeq(ModuleOrder, PassSelects)

\* the exists() query of the loop of auto_assign_remediation; the loop goes on
\* to the create or to the next module, and ends after the last module
HandlerPassExists(h) ==
  /\ running[h].pc = "exists"
  /\ HandlerStep(h, running[h].s, DB,
       IF running[h].k > Len(PassModules) THEN [running[h] EXCEPT !.pc = "history"]
       ELSE IF ~HasOpenAssignment(DB, SimEmployee(running[h].s), PassModules[running[h].k])
       THEN [running[h] EXCEPT !.pc = "create"]
       ELSE [running[h] EXCEPT !.k = @ + 1])

\* RemediationTraining.objects.create(...) after 'if not exists', the module
\* statistics and risk_score.save(update_fields=['trainings_assigned'])
HandlerPassCreate(h) ==
  /\ running[h].pc = "create"
  /\ Len(trainings) < MaxTrainings
  /\ HandlerStep(h, running[h].s,
       [BumpModule(
          [DB EXCEPT !.trainings = Append(@,
             NewTraining(SimEmployee(running[h].s), PassModules[running[h].k],
                         "AUTO_HIGH_RISK", "RiskScore", SimEmployee(running[h].s), now))],
          PassModules[running[h].k], "times_assigned")
        EXCEPT !.rs[SimEmployee(running[h].s)].trainings_assigned = @ + 1],
       [running[h] EXCEPT !.pc = "exists", !.k = @ + 1])

\* the rest of the request: create_risk_history, the remediation calls that end
\* the receiver, and the roll-ups of TrackingEvent.save on the campaign object
\* the view loaded
handler_finish(db, r, t) ==
  roll_up(
    update_simulation_stats(
      IF r.event_type \in {"LINK_CLICKED", "CREDENTIALS_ENTERED"}
      THEN targeted_assignment(
             auto_assign_remediation(
               create_risk_history(db, SimEmployee(r.s), history_event_map(r.event_type),
                 r.old_score, r.inst.score, r.old_level, r.inst.risk_level,
                 "TrackingEvent", r.id, t),
               SimEmployee(r.s), r.inst.score, t),
             r.id, t)
      ELSE create_risk_history(db, SimEmployee(r.s), history_event_map(r.event_type),
             r.old_score, r.inst.score, r.old_level, r.inst.risk_level,
             "TrackingEvent", r.id, t),
      r.id),
    r.camp, r.id).db

\* the request of handler h ends; a handler serves one request in a behaviour
HandlerFinish(h) ==
  /\ running[h].pc = "history"
  /\ trigger.stack = <<>>
  /\ Len(handler_finish(DB, running[h], now).trainings) <= MaxTrainings
  /\ Persist(handler_finish(DB, running[h], now))
  /\ running' = [running EXCEPT ![h] = [HandlerIdle EXCEPT !.pc = "done"]]
  /\ now' = now + 1
  /\ last' = [Op("track_concurrent", SimCampaign(running[h].s), SimEmployee(running[h].s), 0)
                EXCEPT !.created = TRUE]
  /\ UNCHANGED <<horizon, submitting, trigger>>

\* the rows after generate_package of both campaigns: every target has a PENDING
\* simulation and the campaigns are SCHEDULED
PackagedRows ==
  [CreateSimulations(
     CreateSimulations(
       [campaigns |-> [c \in Campaigns |-> NewCampaign], sims |-> <<>>, events |-> <<>>,
        rs |-> <<>>, history |-> <<>>, trainings |-> <<>>,
        modstats |-> [m \in Modules |->
                       [times_assigned |-> 0, times_completed |-> 0, times_passed |-> 0]],
        quizzes |-> [q \in Quizzes |-> "NOT_STARTED"], results |-> <<>>, received |-> <<>>],
       "c1", Targets("c1")),
     "c2", Targets("c2"))
   EXCEPT !.campaigns = [c \in Campaigns |-> [NewCampaign EXCEPT !.status = "SCHEDULED"]]]

\* both campaigns packaged, no request in flight
InitPackaged ==
  /\ now = 1
  /\ campaigns = PackagedRows.campaigns
  /\ sims = PackagedRows.sims
  /\ events = PackagedRows.events
  /\ rs = PackagedRows.rs
  /\ history = PackagedRows.history
  /\ trainings = PackagedRows.trainings
  /\ modstats = PackagedRows.modstats
  /\ quizzes = PackagedRows.quizzes
  /\ results = PackagedRows.results
  /\ received = PackagedRows.received
  /\ submitting = {}
  /\ trigger = TriggerIdle
  /\ running = [h \in Handlers |-> HandlerIdle]
  /\ last = NoOp

InitHandlers == InitPackaged /\ horizon = MaxTimeHandlers

\* employee e1 opens the email or clicks the link of campaign c1 in one request
\* and clicks the link of campaign c1 or of campaign c2 in the other
NextHandlers ==
  \/ \E ev \in {"EMAIL_OPENED", "LINK_CLICKED"} : EventArrives("h1", <<"c1", "e1">>, ev)
  \/ \E c \in Campaigns : EventArrives("h2", <<c, "e1">>, "LINK_CLICKED")
  \/ \E h \in Handlers : HandlerLoad(h)
  \/ \E h \in Handlers : HandlerCheckCounted(h)
  \/ \E h \in Handlers : HandlerCheckRecorded(h)
  \/ \E h \in Handlers : HandlerSaveCounters(h)
  \/ \E h \in Handlers : HandlerRefresh(h)
  \/ \E h \in Handlers : HandlerSaveScore(h)
  \/ \E h \in Handlers : HandlerPassExists(h)
  \/ \E h \in Handlers : HandlerPassCreate(h)
  \/ \E h \in Handlers : HandlerFinish(h)

SpecHandlers == InitHandlers /\ [][NextHandlers]_vars

\* no request is in flight
Quiescent == \A h \in Handlers : running[h].pc \in {"idle", "done"}

\* the relevant events recorded for simulation s with event type ty
Recorded(s, ty) ==
  {i \in 1..Len(events) : events[i].email_simulation = s /\ events[i].event_type = ty}

\* all that was processed are two or more events of type ty for simulation s
IdenticalOnly(s, ty) ==
  /\ Cardinality(Recorded(s, ty)) >= 2
  /\ \A i \in 1..Len(events) :
       events[i].event_type \in RelevantEvents
         => events[i].email_simulation = s /\ events[i].event_type = ty

\* C28 (as stated): when identical events (same simulation, same event type) were
\* processed, concurrently or one after the other, and nothing else was, the
\* counter of the event type stands at one and total_simulations_received counts
\* the simulation once.
IdenticalEventsCountedOnce ==
  \A s \in Sims : \A ty \in {"EMAIL_OPENED", "LINK_CLICKED"} :
    (Quiescent /\ IdenticalOnly(s, ty)) =>
       /\ rs[SimEmployee(s)][CounterOf(ty)] = 1
       /\ rs[SimEmployee(s)].total_simulations_received = 1

\* the simulations of employee e with a recorded event of type ty
SimsWith(e, ty) == {s \in DOMAIN sims : SimEmployee(s) = e /\ Recorded(s, ty) # {}}

\* the recorded relevant events are events of different simulations
DifferentSimulations ==
  \A i, j \in 1..Len(events) :
    (i # j /\ events[i].event_type \in RelevantEvents /\ events[j].event_type \in RelevantEvents)
      => events[i].email_simulation # events[j].email_simulation

\* what every serial order of the recorded events leaves in the row of e: each
\* counter counts the simulations with an event of its type,
\* total_simulations_received the simulations with any relevant event, and the
\* score is the one recalculate_score computes from the counters
SerialOutcome(e) ==
  /\ rs[e].simulations_opened = Cardinality(SimsWith(e, "EMAIL_OPENED"))
  /\ rs[e].simulations_clicked = Cardinality(SimsWith(e, "LINK_CLICKED"))
  /\ rs[e].total_simulations_received =
       Cardinality(SimsWith(e, "EMAIL_OPENED") \cup SimsWith(e, "LINK_CLICKED"))
  /\ rs[e].score = recalculate_score(rs[e]).score

\* C29 (as stated): when the requests that were in flight have ended, and their
\* events were events of different simulations of the employee, the counters and
\* the score of the employee are those a serial order of the requests produces;
\* no increment is lost.
ConcurrentEqualsSerial ==
  (Quiescent /\ DifferentSimulations) => \A e \in DOMAIN rs : SerialOutcome(e)

\* C30 (as stated): in every state, also while requests are in flight, no two
\* RemediationTraining rows in status ASSIGNED or IN_PROGRESS have the same
\* employee and the same module.
NoTwoOpenForOneModule ==
  \A i, j \in 1..Len(trainings) :
    (/\ i < j
     /\ trainings[i].status \in OpenStatuses
     /\ trainings[j].status \in OpenStatuses
     /\ trainings[i].employee = trainings[j].employee)
      => trainings[i].training_module # trainings[j].training_module

(***************************************************************************)
(* The campaign roll-up after two requests in flight, and the next event   *)
(***************************************************************************)
MaxTimeHealing == 4

InitHealing == InitPackaged /\ horizon = MaxTimeHealing

\* employee e1 opens the email of campaign c1 in one request and clicks its link
\* in the other; when both have ended, further events of c1 arrive one at a time
NextHealing ==
  \/ EventArrives("h1", <<"c1", "e1">>, "EMAIL_OPENED")
  \/ EventArrives("h2", <<"c1", "e1">>, "LINK_CLICKED")
  \/ \E h \in Handlers : HandlerLoad(h)
  \/ \E h \in Handlers : HandlerCheckCounted(h)
  \/ \E h \in Handlers : HandlerCheckRecorded(h)
  \/ \E h \in Handlers : HandlerSaveCounters(h)
  \/ \E h \in Handlers : HandlerRefresh(h)
  \/ \E h \in Handlers : HandlerSaveScore(h)
  \/ \E h \in Handlers : HandlerPassExists(h)
  \/ \E h \in Handlers : HandlerPassCreate(h)
  \/ \E h \in Handlers : HandlerFinish(h)
  \/ (\A h \in Handlers : running[h].pc = "done") /\ TrackPixel(<<"c1", "e1">>)
  \/ (\A h \in Handlers : running[h].pc = "done") /\ TrackLinkClick(<<"c1", "e1">>)
  \/ (\A h \in Handlers : running[h].pc = "done") /\ LandingPageView(<<"c1", "e1">>)
  \/ (\A h \in Handlers : running[h].pc = "done") /\ ReportPhishing(<<"c1", "e1">>)

SpecHealing == InitHealing /\ [][NextHealing]_vars

\* the five roll-up counters of campaign row camp equal the counts over the
\* simulations ss of campaign c
RollupMatches(camp, ss, c) ==
  /\ camp.total_sent = CountSent([sims |-> ss], c)
  /\ camp.total_opened = CountOpened([sims |-> ss], c)
  /\ camp.total_clicked = CountClicked([sims |-> ss], c)
  /\ camp.total_reported = CountReported([sims |-> ss], c)
  /\ camp.total_credentials_entered = CountCredentialsEntered([sims |-> ss], c)

\* C31 (as stated): whatever the roll-up counters of a campaign were, after a
\* request has logged a tracking event of the campaign, of any type, all five
\* counters equal the counts recomputed from the campaign's simulations.
NextEventHealsRollup ==
  [][(last'.op \in {"track_pixel", "track_link_click", "landing_page", "report_phishing"}
      /\ last'.created)
       => RollupMatches(campaigns'[last'.c], sims', last'.c)]_vars

\* the same on the counters the event recounts: total_sent always, and the
\* counter of the event's own type
NextEventHealsOwnCounter ==
  [][(last'.op \in {"track_pixel", "track_link_click", "landing_page", "report_phishing"}
      /\ last'.created)
       => /\ campaigns'[last'.c].total_sent = CountSent([sims |-> sims'], last'.c)
          /\ last'.op = "track_pixel" =>
               campaigns'[last'.c].total_opened = CountOpened([sims |-> sims'], last'.c)
          /\ last'.op = "track_link_click" =>
               campaigns'[last'.c].total_clicked = CountClicked([sims |-> sims'], last'.c)
          /\ last'.op = "report_phishing" =>
               campaigns'[last'.c].total_reported = CountReported([sims |-> sims'], last'.c)]_vars

(***************************************************************************)
(* What a tracking event leaves alone                                      *)
(***************************************************************************)
\* requests that log a tracking event, their receiver completed or interrupted
EventOps == {"track_pixel", "track_link_click", "track_interrupted"}

\* the rows of seq before the step are the first rows of seq2 after it, and every
\* row the step added belongs to employee e
OnlyAppendedFor(seq, seq2, e) ==
  /\ Len(seq2) >= Len(seq)
  /\ \A i \in 1..Len(seq) : seq2[i] = seq[i]
  /\ \A i \in (Len(seq) + 1)..Len(seq2) : seq2[i].employee = e

\* C32: a request that logs a tracking event for the simulation of campaign C and
\* employee E, with its receiver run to the end or left by an exception, changes
\* no other simulation, no campaign other than C, no RiskScore of another
\* employee (and creates none), and no history row or training of another
\* employee.
EventTouchesOnlyItsOwn ==
  [][(last'.op \in EventOps /\ last'.created) =>
       /\ DOMAIN sims' = DOMAIN sims
       /\ \A s \in DOMAIN sims : s # <<last'.c, last'.e>> => sims'[s] = sims[s]
       /\ \A c \in Campaigns \ {last'.c} : campaigns'[c] = campaigns[c]
       /\ \A e \in Employees \ {last'.e} :
            IF e \in DOMAIN rs THEN e \in DOMAIN rs' /\ rs'[e] = rs[e]
            ELSE e \notin DOMAIN rs'
       /\ OnlyAppendedFor(history, history', last'.e)
       /\ OnlyAppendedFor(trainings, trainings', last'.e)]_vars

\* an event of e1 in campaign c2 was logged with its receiver interrupted, while
\* e2 has a simulation with flags in the same campaign, a RiskScore, a history row
\* and a training, and campaign c1 was sent
InterruptedBesideOthers ==
  /\ last.op = "track_interrupted"
  /\ last.c = "c2"
  /\ last.e = "e1"
  /\ <<"c2", "e2">> \in DOMAIN sims
  /\ sims[<<"c2", "e2">>].was_clicked
  /\ "e2" \in DOMAIN rs
  /\ \E i \in 1..Len(history) : history[i].employee = "e2"
  /\ \E i \in 1..Len(trainings) : trainings[i].employee = "e2"
  /\ rs["e1"].simulations_opened + rs["e1"].simulations_clicked = 1

(***************************************************************************)
(* The order of the steps of one tracking event                            *)
(***************************************************************************)
\* the statements of update_risk_score_from_simulation after its guards
AggregatorSteps == {"counted", "recorded", "save", "refresh", "score", "exists", "create",
                    "history"}

\* C33 (as stated): while the risk-score aggregator is working on an event, the
\* simulation of the event already shows the status and the flags the event
\* gives it: _update_simulation_stats for that event would change nothing.
AggregatorSeesUpdatedSimulation ==
  \A h \in Handlers :
    running[h].pc \in AggregatorSteps => update_simulation_stats(DB, running[h].id).sims = sims

(***************************************************************************)
(* The numerator of compromise_rate                                        *)
(***************************************************************************)
\* EmployeeSimulation.is_compromised
is_compromised(sim) == sim.was_clicked \/ sim.credentials_entered

\* the simulations of campaign c that are compromised
Compromised(c) == {s \in CampaignSims(DB, c) : is_compromised(sims[s])}

\* C34 (as stated): the compromise_rate of every campaign is the rate of the number
\* of its simulations with is_compromised true over the effective sent count.
CompromiseRateCountsCompromised ==
  \A c \in Campaigns :
    compromise_rate(DB, c) = rate_of(Cardinality(Compromised(c)), effective_sent_count(DB, c))

(***************************************************************************)
(* The score after a quiz result or a simulation event                     *)
(***************************************************************************)
\* the step applied a quiz result or a relevant simulation event to a RiskScore
IsAggregated(l) == l.op = "submit_quiz" \/ (l.op \in IngestOps /\ l.created)

\* C35: right after a quiz result or a relevant simulation event has been applied,
\* the stored score of the employee is recalculate_score of the counters the row
\* then holds, whatever the score was before the step.
ScoreFollowsCounters ==
  [][IsAggregated(last') =>
       /\ last'.e \in DOMAIN rs'
       /\ rs'[last'.e].score = recalculate_score(rs'[last'.e]).score]_vars

\* a manual adjustment moved the score, and the event or quiz result applied next
\* replaced the adjusted score with the score of the counters
AdjustmentOverwritten ==
  /\ IsAggregated(last)
  /\ Len(history) >= 2
  /\ history[Len(history) - 1].event_type = "MANUAL_ADJUSTMENT"
  /\ history[Len(history) - 1].employee = last.e
  /\ history[Len(history)].employee = last.e
  /\ history[Len(history)].previous_score = history[Len(history) - 1].new_score
  /\ history[Len(history)].new_score # history[Len(history) - 1].new_score
  /\ rs[last.e].score = history[Len(history)].new_score

(***************************************************************************)
(* The event counters against total_simulations_received                   *)
(***************************************************************************)
\* C36: in every state reached by requests run one at a time, no employee has more
\* simulations opened, clicked or reported, or more credential submissions, than
\* simulations received; so the simulation adjustment of the score is at most 30.
CountersWithinReceived ==
  \A e \in DOMAIN rs :
    /\ rs[e].simulations_opened <= rs[e].total_simulations_received
    /\ rs[e].simulations_clicked <= rs[e].total_simulations_received
    /\ rs[e].simulations_reported <= rs[e].total_simulations_received
    /\ rs[e].credentials_entered <= rs[e].total_simulations_received
    /\ simulation_adjustment(rs[e].simulations_clicked, rs[e].total_simulations_received) <= 30

\* a simulation that was bulk-marked as sent has been clicked twice: one simulation
\* received, one clicked, and the simulation adjustment at its maximum
EveryReceivedClicked ==
  /\ last.op = "track_link_click"
  /\ last.created
  /\ last.dup
  /\ OtherEvents(DB, <<last.c, last.e>>, 0, {"EMAIL_SENT"}) = {}
  /\ rs[last.e].total_simulations_received = 1
  /\ rs[last.e].simulations_clicked = 1
  /\ simulation_adjustment(rs[last.e].simulations_clicked,
                           rs[last.e].total_simulations_received) = 30

(***************************************************************************)
(* Two submit_quiz requests for one RemediationTraining.  The view reads   *)
(* the training and the RiskScore without a lock; a request is followed in *)
(* two steps, its reads and its writes, and holds the instances it loaded. *)
(***************************************************************************)
MaxTimeRetake == 6

\* what a submit_quiz request holds after get_object(), the checks and
\* RiskScore.objects.get: the training and RiskScore instances
SubmitLoaded(i) ==
  [pc |-> "submit", id |-> i, training |-> trainings[i],
   has_score |-> trainings[i].employee \in DOMAIN rs,
   inst |-> IF trainings[i].employee \in DOMAIN rs THEN rs[trainings[i].employee]
            ELSE NewRiskScore]

\* RemediationTrainingViewSet.submit_quiz of request h up to RiskScore.objects.get
TrainingSubmitBegin(h, i) ==
  /\ running[h].pc = "idle"
  /\ now < horizon
  /\ i \in 1..Len(trainings)
  /\ trainings[i].status \notin {"PASSED", "COMPLETED"}
  /\ trainings[i].content_viewed
  /\ running' = [running EXCEPT ![h] = SubmitLoaded(i)]
  /\ last' = Op("submit_training_begin", "", trainings[i].employee, i)
  /\ UNCHANGED <<now, horizon, campaigns, sims, events, rs, history, trainings, modstats,
                 quizzes, results, received, submitting, trigger>>

\* submit_quiz for a training whose status is PASSED or COMPLETED: 400
TrainingSubmitRefused(i) ==
  /\ i \in 1..Len(trainings)
  /\ trainings[i].status \in {"PASSED", "COMPLETED"}
  /\ Reject(Op("submit_training_refused", "", trainings[i].employee, i))

\* training.risk_score_before = risk_score.score, RemediationTraining.submit_quiz
\* (self.save() writes the loaded instance, quiz_attempts as an F() expression)
\* and the module statistics
record_quiz_loaded(db, r, m, correct, passed, t) ==
  [db EXCEPT
     !.trainings[r.id] =
        [r.training EXCEPT
           !.risk_score_before = IF r.has_score THEN r.inst.score ELSE @,
           !.quiz_attempts = db.trainings[r.id].quiz_attempts + 1,
           !.quiz_score_passed = passed,
           !.correct_answers = correct,
           !.total_questions = ModuleConfig(m).questions,
           !.completed_at = t,
           !.status = IF passed THEN "PASSED" ELSE "FAILED"],
     !.modstats[m] =
        [@ EXCEPT !.times_completed = @ + 1,
                  !.times_passed = IF passed THEN @ + 1 ELSE @]]

\* the RiskScore part of the view on the instance the request loaded: the first
\* risk_score.save() writes the whole row, the training counters as F() expressions
training_outcome_loaded(db, r, e, m, passed, t) ==
  IF ~r.has_score THEN db
  ELSE IF passed
  THEN passed_reduce(
         RiskScoreSave(db, e, [r.inst EXCEPT
                                 !.trainings_completed = db.rs[e].trainings_completed + 1,
                                 !.trainings_passed = db.rs[e].trainings_passed + 1,
                                 !.last_training_date = t], t),
         e, m, r.id, r.inst.score, t)
  ELSE create_risk_history(
         RiskScoreSave(db, e, [r.inst EXCEPT
                                 !.trainings_completed = db.rs[e].trainings_completed + 1,
                                 !.last_training_date = t], t),
         e, "TRAINING_FAILED", r.inst.score, r.inst.score,
         calculate_risk_level(r.inst.score), calculate_risk_level(r.inst.score),
         "RemediationTraining", r.id, t)

\* the rest of submit_quiz of request h, committed at the end of the view
TrainingSubmitFinish(h, correct) ==
  /\ running[h].pc = "submit"
  /\ correct \in 0..ModuleConfig(running[h].training.training_module).questions
  /\ trigger.stack = <<>>
  /\ Write(training_outcome_loaded(
             record_quiz_loaded(DB, running[h], running[h].training.training_module, correct,
                                quiz_passed(running[h].training.training_module, correct), now),
             running[h], running[h].training.employee, running[h].training.training_module,
             quiz_passed(running[h].training.training_module, correct), now),
           Op("submit_training_quiz", "", running[h].training.employee, running[h].id))
  /\ running' = [running EXCEPT ![h] = HandlerIdle]
  /\ UNCHANGED <<submitting, trigger>>

InitRetake == InitRows /\ horizon = MaxTimeRetake

NextRetake ==
  \/ Send("c1", TRUE, {})
  \/ TrackLinkClick(<<"c1", "e1">>)
  \/ \E i \in 1..MaxTrainings : ViewContent(i)
  \/ \E h \in Handlers : \E i \in 1..MaxTrainings : TrainingSubmitBegin(h, i)
  \/ \E h \in Handlers : \E k \in TrainingCorrect : TrainingSubmitFinish(h, k)
  \/ \E i \in 1..MaxTrainings : TrainingSubmitRefused(i)

SpecRetake == InitRetake /\ [][NextRetake]_vars

\* the TRAINING_PASSED history rows written for training i
PassedRows(i) ==
  {k \in 1..Len(history) : /\ history[k].event_type = "TRAINING_PASSED"
                           /\ history[k].source_id = i}

\* C37 (as stated): every RemediationTraining is applied as passed at most once,
\* for every sequence and interleaving of its submissions: it has at most one
\* TRAINING_PASSED history row, and trainings_passed of an employee is at most the
\* number of the employee's trainings that were passed.
PassedAppliedOnce ==
  /\ \A i \in 1..Len(trainings) : Cardinality(PassedRows(i)) <= 1
  /\ \A e \in DOMAIN rs :
       rs[e].trainings_passed <=
         Cardinality({i \in 1..Len(trainings) : trainings[i].employee = e /\ PassedRows(i) # {}})

\* once a training is PASSED, a submission that arrives afterwards is refused and
\* no request that starts afterwards changes it
PassedRefusedAfterwards ==
  [][last'.op = "submit_training_refused" =>
       /\ trainings[last'.i].status \in {"PASSED", "COMPLETED"}
       /\ DB' = DB]_vars

(***************************************************************************)
(* The history of an employee as a chain                                   *)
(***************************************************************************)
\* the positions of the history rows of employee e, in the order of creation
RowsOf(e) == {k \in 1..Len(history) : history[k].employee = e}

\* the row of employee e before row k, 0 if k is the first
RowBefore(e, k) ==
  IF {j \in RowsOf(e) : j < k} = {} THEN 0
  ELSE CHOOSE j \in RowsOf(e) : j < k /\ \A x \in RowsOf(e) : x < k => x <= j

\* C38 (as stated): with requests run one at a time, the previous_score of every
\* history row is the new_score of the employee's row before it, 50 for the first
\* row, and the new_score of the employee's latest row is the stored score.
HistoryIsChain ==
  \A e \in DOMAIN rs :
    /\ \A k \in RowsOf(e) :
         history[k].previous_score =
           IF RowBefore(e, k) = 0 THEN 50 ELSE history[RowBefore(e, k)].new_score
    /\ RowsOf(e) # {} => history[RowBefore(e, Len(history) + 1)].new_score = rs[e].score

\* employee e1 has a chain of at least three rows with different scores, one of
\* them a manual adjustment, and the last one written by the last request
ChainOfThree ==
  /\ "e1" \in DOMAIN rs
  /\ Cardinality(RowsOf("e1")) >= 3
  /\ \E k \in RowsOf("e1") : history[k].event_type = "MANUAL_ADJUSTMENT"
  /\ \A k \in RowsOf("e1") : history[k].previous_score # history[k].new_score
  /\ history[Len(history)].employee = "e1"
  /\ history[Len(history)].created_at = now - 1
  /\ history[Len(history)].event_type # "MANUAL_ADJUSTMENT"

(***************************************************************************)
(* The direction of the campaign status                                    *)
(***************************************************************************)
\* C39 (as stated): no request sets a campaign that is IN_PROGRESS back to
\* SCHEDULED or DRAFT, and no request changes the status of a COMPLETED campaign.
StatusNeverBackwards ==
  [][\A c \in Campaigns :
       /\ campaigns[c].status = "IN_PROGRESS" => campaigns'[c].status \notin {"SCHEDULED", "DRAFT"}
       /\ campaigns[c].status = "COMPLETED" => campaigns'[c].status = "COMPLETED"]_vars

\* the part that holds: a COMPLETED campaign keeps its status, and only
\* generate_package sets an IN_PROGRESS campaign back
OnlyPackageSetsBack ==
  [][\A c \in Campaigns :
       /\ (campaigns[c].status = "IN_PROGRESS" /\ campaigns'[c].status \in {"SCHEDULED", "DRAFT"})
            => (last'.op = "generate_package" /\ last'.c = c /\ campaigns'[c].status = "SCHEDULED")
       /\ campaigns[c].status = "COMPLETED" => campaigns'[c].status = "COMPLETED"]_vars
====
